---- MODULE Spec2Model ----
(***************************************************************************)
(* Solarian Datalogger: the acquisition cycle of datalogger.py (main and   *)
(* the __main__ block), the bounded-retry read protocol of the drivers     *)
(* under drivers/, and the register codec each driver carries              *)
(* (convert_registers_to_long, signed).                                    *)
(*                                                                         *)
(* Two specifications share the module:                                    *)
(*   Spec       one run of datalogger.py over a device configuration;      *)
(*   SpecCodec  the register codec applied to sampled register words.      *)
(*                                                                         *)
(* Python values are represented as follows.  An int of up to 32 bits is   *)
(* a sign and two 16-bit limbs; a float is an IEEE 754 binary64 value,     *)
(* its sign, significand bits and exponent (the quotient a decode          *)
(* returns is also kept exactly, as [num, den]).  A list indexed from 0 is *)
(* a function on 0..n-1.  A JSON text is the sequence of its members.  An  *)
(* optional value (a local that may not be bound yet) is a sequence of     *)
(* length 0 or 1.  Device names are the 1-based positions of the devices   *)
(* in the configuration; name 0 is the telemetry Reading's fixed name.     *)
(***************************************************************************)
EXTENDS Integers, Sequences, FiniteSets, TLC

VARIABLES
    cfg,           \* the device configuration file on disk: <<>> if missing, else <<devices>>
    devices,       \* main: devices (list of Device Descriptors), once loaded
    pc,            \* position of the run in datalogger.py
    idx,           \* main: position of the for loop in devices (1-based)
    data_package,  \* main: data_package, the Batch
    results,       \* per device already passed by the loop: what became of it
    calls,         \* the imports of driver modules and the calls of get_data made
    drv,           \* get_data: the driver module the current call runs in
    rng,           \* get_data: the register range being read (1 = read1, ...)
    x,             \* get_data: the attempt counter of the current retry loop
    reads,         \* get_data: the locals read1, read2, read3 (optional values)
    values,        \* get_data: the OrderedDict values, as filled before the reads
    in_flight,     \* bus transactions sent whose response or timeout is awaited
    attempts,      \* outcomes of the bus transactions issued for the current range
    prior_retried, \* an earlier range of this call needed more than one transaction
    exhausted,     \* some range of this call ended without an accepted attempt
    ret,           \* get_data: its return value, once it returned
    args,          \* command line flags read so far that are set
    reached,       \* steps of main after the device loop that were entered
    published,     \* the payloads send_data built from the Batch, if it got that far
    temp_file,     \* the text of the file in the temporary directory, if written
    final_file,    \* the text of the file at the final path, if renamed into place
    log,           \* error entries written to the log
    codec_in,      \* codec call under test: its arguments
    codec_out,     \* codec call under test: its result, once applied
    kill_now,      \* GracefulKiller: kill_now
    connections,   \* devices whose bus connection is open
    query,         \* masterTCP.execute: the request last sent (address, count)
    transactions,  \* get_data: the calls of masterTCP.execute made in the current call
    servers,       \* send_data: servers, once the MQTT configuration is read
    server,        \* send_data: position of the for loop in servers (1-based)
    offered        \* send_data: per server, the call of multiple made for it, if any

vars == <<cfg, devices, pc, idx, data_package, results, calls, drv, rng, x, reads,
          values, in_flight, attempts, prior_retried, exhausted, ret, args, reached, published,
          temp_file, final_file, log, codec_in, codec_out, kill_now, connections,
          query, transactions, servers, server, offered>>

callVars == <<drv, rng, x, reads, values, in_flight, attempts, prior_retried,
              exhausted, ret>>
sinkVars == <<args, reached, published, temp_file, final_file>>
codecVars == <<codec_in, codec_out>>
signalVars == <<kill_now>>
busVars == <<connections, query, transactions>>
mqttVars == <<servers, server, offered>>

----------------------------------------------------------------------------
(* Bounds of the model.                                                    *)

\* Longest device configuration explored.
MaxDevices == 2

\* Most status flags extracted from one status word.
MaxExtractions == 2

\* Longest device configuration of the runs checked for termination.
MaxLiveDevices == 1

\* Longest list of MQTT servers explored.
MaxServers == 2

----------------------------------------------------------------------------
(* Register codec.                                                         *)

\* struct.pack('>HH', a, b): four bytes, each word most significant byte
\* first; struct.error (modelled as <<>>) when a word is not in 0..65535.
pack_HH(a, b) ==
    IF a \in 0..65535 /\ b \in 0..65535
       THEN << a \div 256, a % 256, b \div 256, b % 256 >>
       ELSE << >>

\* A Python int of up to 32 bits is kept as sign and magnitude in two 16-bit
\* limbs, value = (IF neg THEN -1 ELSE 1) * (hi * 65536 + lo), so that no
\* intermediate value needs more than 31 bits.
Long(neg, hi, lo) == [neg |-> neg, hi |-> hi, lo |-> lo]

\* struct.unpack('>L', bytes)[0]: big-endian unsigned 32-bit integer.
unpack_L(bytes) ==
    Long(FALSE, bytes[1] * 256 + bytes[2], bytes[3] * 256 + bytes[4])

\* struct.unpack('>l', bytes)[0]: big-endian two's complement 32-bit
\* integer; with the sign bit set the value is u - 2^32, of magnitude 2^32 - u.
unpack_l(bytes) ==
    LET u == unpack_L(bytes)
    IN  IF bytes[1] < 128 THEN u
        ELSE Long(TRUE,
                  65535 - u.hi + (IF u.lo = 0 THEN 1 ELSE 0),
                  (65536 - u.lo) % 65536)

\* Mutant: the dictionary is shifted by one entry ({0: 10, 1: 100, ...}).
decimal_shifted(decimals) == 10 ^ (decimals + 1)

\* The dictionary decimal = {0: 1, 1: 10, 2: 100, 3: 1000}.
decimal(decimals) == 10 ^ decimals

\* Mutant: the two words are packed low word first.
convert_registers_to_long_swapped(start_bit, stop_bit, is_signed, decimals, data) ==
    LET mypack    == pack_HH(data[stop_bit], data[start_bit])
        long_data == IF is_signed THEN unpack_l(mypack) ELSE unpack_L(mypack)
    IN  [num |-> long_data, den |-> decimal(decimals)]

\* convert_registers_to_long(start_bit, stop_bit, signed, decimals, data):
\* float(long_data[0]) / decimal[decimals], kept as the exact quotient
\* num / den; float_truediv(num, den) is the float it evaluates to.
convert_registers_to_long(start_bit, stop_bit, is_signed, decimals, data) ==
    LET mypack    == pack_HH(data[start_bit], data[stop_bit])
        long_data == IF is_signed THEN unpack_l(mypack) ELSE unpack_L(mypack)
    IN  [num |-> long_data, den |-> decimal(decimals)]

\* Whether convert_registers_to_long raises instead of returning:
\* data[start_bit] and data[stop_bit] raise IndexError when the offset is
\* missing, pack raises struct.error on a word out of range, and the function
\* holds no try block.
convert_registers_to_long_raises(start_bit, stop_bit, data) ==
    \/ start_bit \notin DOMAIN data
    \/ stop_bit \notin DOMAIN data
    \/ pack_HH(data[start_bit], data[stop_bit]) = << >>

\* struct.pack('<H', value): two bytes, least significant first; struct.error
\* (modelled as <<>>) when value is not in 0..65535.
pack_H(value) ==
    IF value \in 0..65535 THEN << value % 256, value \div 256 >> ELSE << >>

\* struct.unpack('<h', bytes)[0]: little-endian two's complement 16-bit integer.
unpack_h(bytes) ==
    IF bytes[2] >= 128
        THEN bytes[1] + 256 * bytes[2] - 65536
        ELSE bytes[1] + 256 * bytes[2]

\* Mutant: the sign threshold is off by one bit (sign taken from bit 14).
signed_bit14(value) ==
    LET packval == pack_H(value)
    IN  IF packval = << >> THEN 0
        ELSE IF packval[2] >= 64
            THEN packval[1] + 256 * packval[2] - 65536
            ELSE packval[1] + 256 * packval[2]

\* signed(value): the except branch logs and falls through to "return 0".
signed(value) ==
    LET packval == pack_H(value)
    IN  IF packval = << >> THEN 0 ELSE unpack_h(packval)

----------------------------------------------------------------------------
(* Python floats (IEEE 754 binary64, round to nearest, ties to even).      *)

\* A float other than 0.0: sign, the 53 bits of the significand (most
\* significant first, the first one set) and the binary exponent of the last
\* bit; value = (-1)^neg * significand * 2^exp.
Float(neg, bits, exp) == [neg |-> neg, bits |-> bits, exp |-> exp]

\* 0.0
FloatZero == Float(FALSE, << >>, 0)

\* The 16 bits of a register word, most significant first.
Bits16(w) == [i \in 1..16 |-> (w \div 2 ^ (16 - i)) % 2]

\* significand + 1 on a bit string; carry is 1 when every bit was set.
Increment(bits) ==
    LET zeros == { k \in 1..Len(bits) : bits[k] = 0 }
    IN  IF zeros = {}
           THEN [bits |-> [k \in 1..Len(bits) |-> IF k = 1 THEN 1 ELSE 0],
                 carry |-> 1]
           ELSE LET z == CHOOSE k \in zeros : \A j \in zeros : j <= k
                IN  [bits |-> [k \in 1..Len(bits) |->
                                 IF k < z THEN bits[k] ELSE IF k = z THEN 1 ELSE 0],
                     carry |-> 0]

\* Rounding of an exact result to a float: sig holds its 53 leading bits,
\* guard the next bit, sticky tells whether any later bit is set, exp is the
\* exponent of sig's last bit.
RoundToFloat(neg, sig, guard, sticky, exp) ==
    IF guard = 1 /\ (sticky \/ sig[53] = 1)
       THEN LET up == Increment(sig)
            IN  Float(neg, up.bits, exp + up.carry)
       ELSE Float(neg, sig, exp)

\* Binary long division of the 32-bit dividend (followed by zero bits) by d:
\* the quotient bits from the first set one on, up to 54 of them; i is the
\* position of the next dividend bit, r the running remainder.
RECURSIVE Quotient(_, _, _, _, _)
Quotient(dividend, d, i, r, sig) ==
    IF Len(sig) = 54
       THEN [sig |-> sig, last |-> i - 1, rem |-> r]
       ELSE LET t == 2 * r + (IF i <= Len(dividend) THEN dividend[i] ELSE 0)
                q == IF t >= d THEN 1 ELSE 0
            IN  Quotient(dividend, d, i + 1, t - q * d,
                         IF sig = << >> /\ q = 0 THEN sig ELSE Append(sig, q))

\* float(n) / d for a 32-bit int n and d in {1, 10, 100, 1000}: float(n) is
\* exact, the quotient is rounded once.
float_truediv(n, d) ==
    IF n.hi = 0 /\ n.lo = 0 THEN FloatZero
    ELSE LET q == Quotient(Bits16(n.hi) \o Bits16(n.lo), d, 1, 0, << >>)
         IN  RoundToFloat(n.neg, SubSeq(q.sig, 1, 53), q.sig[54], q.rem # 0,
                          33 - q.last)

\* The exact product of a bit string by a small int k, most significant bit
\* first: the bits are taken from the last one with a running carry.
RECURSIVE Product(_, _, _, _, _)
Product(bits, k, i, carry, acc) ==
    IF i = 0
       THEN IF carry = 0 THEN acc
            ELSE Product(bits, k, 0, carry \div 2, <<carry % 2>> \o acc)
       ELSE LET t == bits[i] * k + carry
            IN  Product(bits, k, i - 1, t \div 2, <<t % 2>> \o acc)

\* f * k for a float f and an int k in 1..1000 (float(k) is exact): the
\* exact product is rounded once.
float_mul(f, k) ==
    IF f = FloatZero THEN FloatZero
    ELSE LET p    == Product(f.bits, k, 53, 0, << >>)
             more == Len(p) - 53
         IN  IF more = 0 THEN Float(f.neg, p, f.exp)
             ELSE RoundToFloat(f.neg, SubSeq(p, 1, 53), p[54],
                               \E j \in 55..Len(p) : p[j] = 1, f.exp + more)

\* float(n) for an int n of at most 32 bits.
float(n) == float_truediv(n, 1)

\* 1.0
FloatOne == float(Long(FALSE, 0, 1))

\* Mutant: the mask is applied to the shift count, "word >> (n & 1)".
StatusBit_MaskedShift(word, n) == float(Long(FALSE, 0, word \div 2 ^ (n % 2)))

\* float(w) / d for a register word w.
WordOver(w, d) == float_truediv(Long(FALSE, 0, w), d)

\* Mutant: Total_Current is taken from the offset of Board_Temp.
dcb_values_shifted(read1) ==
    [I_DC          |-> [k \in 1..24 |-> WordOver(read1[k - 1], 1000)],
     V_DC          |-> float(Long(FALSE, 0, read1[32])),
     Cabinet_Temp  |-> float(Long(FALSE, 0, read1[37])),
     Board_Temp    |-> float(Long(FALSE, 0, read1[38])),
     Total_Current |-> WordOver(read1[38], 10),
     Power         |-> LET c == convert_registers_to_long(41, 40, FALSE, 0, read1)
                       IN  float_truediv(c.num, c.den)]

\* dcb_kernel_st0hs2425.get_data, "#Parse the data": the decoded fields of
\* values (I_DC[k] stands for values['I_DC_k']).
dcb_values(read1) ==
    [I_DC          |-> [k \in 1..24 |-> WordOver(read1[k - 1], 1000)],
     V_DC          |-> float(Long(FALSE, 0, read1[32])),
     Cabinet_Temp  |-> float(Long(FALSE, 0, read1[37])),
     Board_Temp    |-> float(Long(FALSE, 0, read1[38])),
     Total_Current |-> WordOver(read1[39], 10),
     Power         |-> LET c == convert_registers_to_long(41, 40, FALSE, 0, read1)
                       IN  float_truediv(c.num, c.den)]

\* A Python int in -65535..65535 in the form of Long.
SmallInt(v) == Long(v < 0, 0, IF v < 0 THEN 0 - v ELSE v)

\* schneider_ion_7650.get_data, the parse after the retry loop: the fields
\* of values by kind.  UINT16[i] is "float(read1[i]) * 10" (Ia .. Phase_Rev),
\* UINT32[i] and INT32[i] are convert_registers_to_long(i, i + 1, ..., 0,
\* read1) (Vln_a .. Vll_avg_min, kW_a .. kVAh_drec), INT16[i] is
\* "float(signed(read1[i])) * 100" (PF_sign_a .. I3_Crest_Fact).
ion_values(read1) ==
    [UINT16 |-> [i \in 0..15 |-> float_mul(float(SmallInt(read1[i])), 10)],
     UINT32 |-> [i \in { 16 + 2 * k : k \in 0..10 } |->
                   LET c == convert_registers_to_long(i, i + 1, FALSE, 0, read1)
                   IN  float_truediv(c.num, c.den)],
     INT32  |-> [i \in { 38 + 2 * k : k \in 0..19 } |->
                   LET c == convert_registers_to_long(i, i + 1, TRUE, 0, read1)
                   IN  float_truediv(c.num, c.den)],
     INT16  |-> [i \in 78..93 |-> float_mul(float(SmallInt(signed(read1[i]))), 100)]]

\* float(word >> n & 1): the shift binds tighter than the mask.
StatusBit(word, n) == float(Long(FALSE, 0, (word \div 2 ^ n) % 2))

----------------------------------------------------------------------------
(* Status words of the ABB inverters.                                      *)

\* inv_abb_pvs800.get_data, "#Extract Status-Limiting-Grid-Env-Fan Words":
\* where each status word is taken from.
pvs800_words(read1, read3) ==
    [main_status_word          |-> read1[1],
     limiting_status_word      |-> read3[1],
     mppt_status_word          |-> read3[3],
     grid_status_word          |-> read3[4],
     fan_status_word           |-> read3[5],
     environmental_status_word |-> read3[7]]

\* Mutant: the reserved bit 10 of the limitation word gets a field too.
pvs800_bits_reserved_kept ==
    [main_status_word          |-> 0..11,
     limiting_status_word      |-> 0..11,
     mppt_status_word          |-> 0..3,
     grid_status_word          |-> 0..11,
     fan_status_word           |-> 0..6,
     environmental_status_word |-> 0..7]

\* inv_abb_pvs800.get_data, "#Extract bits from words ...": the bit
\* positions n of the lines "values['Status_...'] = float(word >> n & 1)",
\* word by word.
pvs800_bits ==
    [main_status_word          |-> 0..11,
     limiting_status_word      |-> (0..9) \cup {11},
     mppt_status_word          |-> 0..3,
     grid_status_word          |-> 0..11,
     fan_status_word           |-> 0..6,
     environmental_status_word |-> 0..7]

\* The docstring of inv_abb_pvs800.get_data: the bit positions it lists for
\* each status word, and those among them it marks RESERVED.
pvs800_documented ==
    [main_status_word          |-> [listed |-> 0..11, reserved |-> {}],
     limiting_status_word      |-> [listed |-> 0..11, reserved |-> {10}],
     mppt_status_word          |-> [listed |-> 0..3,  reserved |-> {}],
     grid_status_word          |-> [listed |-> 0..11, reserved |-> {}],
     fan_status_word           |-> [listed |-> 0..6,  reserved |-> {}],
     environmental_status_word |-> [listed |-> 0..7,  reserved |-> {}]]

\* inv_abb_pvs980.get_data, "#Extract Status Words".
pvs980_words(read1, read3) ==
    [electromechanical_word    |-> read3[0],
     main_status_word          |-> read1[1],
     limiting_status_word      |-> read3[3],
     mppt_status_word          |-> read3[5],
     grid_status_word          |-> read3[6],
     fan_status_word_1         |-> read3[7],
     fan_status_word_2         |-> read3[8],
     environmental_status_word |-> read3[9],
     fault_status_word_1       |-> read3[10],
     fault_status_word_2       |-> read3[11],
     alarm_status_word         |-> read3[12]]

\* inv_abb_pvs980.get_data, "#Extract bits from words ...".
pvs980_bits ==
    [electromechanical_word    |-> 0..15,
     main_status_word          |-> 0..10,
     limiting_status_word      |-> (0..12) \cup {14},
     mppt_status_word          |-> 0..3,
     grid_status_word          |-> 0..11,
     fan_status_word_1         |-> 0..15,
     fan_status_word_2         |-> 0..11,
     environmental_status_word |-> 1..6,
     fault_status_word_1       |-> 0..15,
     fault_status_word_2       |-> 0..15,
     alarm_status_word         |-> 0..15]

\* The docstring of inv_abb_pvs980.get_data.
pvs980_documented ==
    [electromechanical_word    |-> [listed |-> 0..15, reserved |-> {}],
     main_status_word          |-> [listed |-> 0..10, reserved |-> {}],
     limiting_status_word      |-> [listed |-> 0..14, reserved |-> {13}],
     mppt_status_word          |-> [listed |-> 0..3,  reserved |-> {}],
     grid_status_word          |-> [listed |-> 0..11, reserved |-> {}],
     fan_status_word_1         |-> [listed |-> 0..15, reserved |-> {}],
     fan_status_word_2         |-> [listed |-> 0..11, reserved |-> {}],
     environmental_status_word |-> [listed |-> 0..6,  reserved |-> {0}],
     fault_status_word_1       |-> [listed |-> 0..15, reserved |-> {}],
     fault_status_word_2       |-> [listed |-> 0..15, reserved |-> {}],
     alarm_status_word         |-> [listed |-> 0..15, reserved |-> {}]]

\* The Status_ fields get_data puts in values, as word -> bit -> flag.
status_values(words, bits) ==
    [w \in DOMAIN words |-> [n \in bits[w] |-> StatusBit(words[w], n)]]

\* The status part of the Reading of each of the two drivers.
pvs_status(d, read1, read3) ==
    IF d = "inv_abb_pvs800"
       THEN status_values(pvs800_words(read1, read3), pvs800_bits)
       ELSE status_values(pvs980_words(read1, read3), pvs980_bits)

----------------------------------------------------------------------------
(* Drivers.                                                                *)

DriverIds ==
    { "dcb_kernel_st0hs2425", "inv_abb_pvs800", "inv_abb_pvs980",
      "ekk_socomec_dirisa10", "schneider_ion_7650",
      "schneider_ion_7650_inavitas", "ekk_schneider_ion_7650",
      "schneider_ion_7650_stupid", "sensor_meteorology_boydak" }

\* A driver identifier for which drivers/ holds no module.
UnknownDriver == "no_such_driver"

\* TRY_AMOUNT of each driver module.
TRY_AMOUNT(d) == IF d = "inv_abb_pvs980" THEN 10 ELSE 3

\* Number of register ranges get_data reads (read1, read2, read3).
NumRanges(d) ==
    IF d \in {"inv_abb_pvs800", "inv_abb_pvs980", "ekk_socomec_dirisa10"}
        THEN 3 ELSE 1

\* Drivers whose retry loop holds the zero-voltage check.
ZeroVoltageGate(d) ==
    d \in {"schneider_ion_7650", "schneider_ion_7650_inavitas",
           "ekk_schneider_ion_7650"}

\* Drivers whose get_data opens a serial port before the retry loops
\* (serial.Serial(port='/dev/ttyUSB0', ...) raises when the port is absent).
OpensSerialPort(d) == d = "ekk_socomec_dirisa10"

\* Drivers whose retry loops end in "finally: masterTCP.close()" and whose
\* get_data calls masterTCP.close() once more after the last loop; no other
\* driver calls close.
ClosesAfterAttempt(d) == d = "inv_abb_pvs980"

\* The request of each masterTCP.execute(slave_id, function, address, count):
\* starting address and number of registers of range r of driver d.
Request(d, r) ==
    CASE d = "dcb_kernel_st0hs2425"        -> [address |-> 51, count |-> 47]
      [] d = "ekk_schneider_ion_7650"      -> [address |-> 149, count |-> 122]
      [] d = "schneider_ion_7650_inavitas" -> [address |-> 149, count |-> 122]
      [] d = "schneider_ion_7650"          -> [address |-> 40150, count |-> 94]
      [] d = "schneider_ion_7650_stupid"   -> [address |-> 40150, count |-> 20]
      [] d = "sensor_meteorology_boydak"   -> [address |-> 0, count |-> 124]
      [] d = "ekk_socomec_dirisa10" ->
            ( CASE r = 1 -> [address |-> 50514, count |-> 30]
                [] r = 2 -> [address |-> 50780, count |-> 10]
                [] r = 3 -> [address |-> 51536, count |-> 9] )
      [] d = "inv_abb_pvs800" ->
            ( CASE r = 1 -> [address |-> 42496, count |-> 7]
                [] r = 2 -> [address |-> 42545, count |-> 27]
                [] r = 3 -> [address |-> 42599, count |-> 8] )
      [] d = "inv_abb_pvs980" ->
            ( CASE r = 1 -> [address |-> 42496, count |-> 7]
                [] r = 2 -> [address |-> 42545, count |-> 33]
                [] r = 3 -> [address |-> 42599, count |-> 13] )

\* inv_abb_pvs980.get_data, "#Extract Status Words": the offset of read3
\* each status word is taken from (the main status word comes from read1).
pvs980_read3_offsets ==
    [electromechanical_word    |-> 0,
     limiting_status_word      |-> 3,
     mppt_status_word          |-> 5,
     grid_status_word          |-> 6,
     fan_status_word_1         |-> 7,
     fan_status_word_2         |-> 8,
     environmental_status_word |-> 9,
     fault_status_word_1       |-> 10,
     fault_status_word_2       |-> 11,
     alarm_status_word         |-> 12]

\* The docstring of inv_abb_pvs980.get_data, "== READ 3 ==": the register
\* each of these status words is documented at.
pvs980_read3_registers ==
    [electromechanical_word    |-> 42626,
     limiting_status_word      |-> 42629,
     mppt_status_word          |-> 42631,
     grid_status_word          |-> 42632,
     fan_status_word_1         |-> 42633,
     fan_status_word_2         |-> 42634,
     environmental_status_word |-> 42635,
     fault_status_word_1       |-> 42636,
     fault_status_word_2       |-> 42637,
     alarm_status_word         |-> 42638]

\* Offsets of the voltage slice tested by the zero-voltage check.
VoltageHi == 16
VoltageLo == 17

----------------------------------------------------------------------------
(* The bus: what masterTCP.execute can do on one transaction.              *)

\* A response, as far as the model reads it: words 0..VoltageLo of the
\* returned tuple, all zero except the voltage slice (hi, lo).
Response(hi, lo) ==
    [i \in 0..VoltageLo |->
        IF i = VoltageHi THEN hi ELSE IF i = VoltageLo THEN lo ELSE 0]

\* Sampled voltage slices: zero, a plausible 230 V, and a value whose low
\* word alone is zero.
VoltageSamples == { <<0, 0>>, <<0, 230>>, <<1, 0>> }

NoData == Response(0, 0)

\* Outcomes of execute(): it raises (timeout, malformed frame) or returns data.
\* Only the gated drivers inspect the data inside a retry loop; one sample
\* stands for the responses of the others.
BusOutcomes(d, r) ==
    { [ok |-> FALSE, data |-> NoData] } \cup
    { [ok |-> TRUE, data |-> Response(v[1], v[2])] :
        v \in IF ZeroVoltageGate(d) THEN VoltageSamples ELSE {<<0, 230>>} }

----------------------------------------------------------------------------
(* One retry loop of get_data.                                             *)

\* convert_registers_to_long(16, 17, False, 0, read1) == 0
VoltageIsZero(data) ==
    LET v == convert_registers_to_long(VoltageHi, VoltageLo, FALSE, 0, data)
    IN  v.num.hi = 0 /\ v.num.lo = 0

\* Whether the body of the try block runs to "x = TRY_AMOUNT": execute
\* returned and, in the gated drivers, the voltage check did not raise.
Accepted(d, out) ==
    out.ok /\ ~(ZeroVoltageGate(d) /\ VoltageIsZero(out.data))

\* Mutant: "while x <= TRY_AMOUNT".
LoopContinues_OffByOne(d, xx) == xx <= TRY_AMOUNT(d)

\* The loop condition "while x < TRY_AMOUNT".
LoopContinues(d, xx) == xx < TRY_AMOUNT(d)

\* Mutant: a success does not end the loop ("x = TRY_AMOUNT" missing, the
\* counter is advanced instead).
NextX_NoStop(d, xx, accepted) == xx + 1

\* Mutant: a failed attempt costs two attempts of the budget.
NextX_Double(d, xx, accepted) ==
    IF accepted THEN TRY_AMOUNT(d) ELSE xx + 2

\* Mutant: the except block lacks "x += 1".
NextX_Stuck(d, xx, accepted) ==
    IF accepted THEN TRY_AMOUNT(d) ELSE xx

\* The counter after one pass of the loop body: "x = TRY_AMOUNT" at the end
\* of the try block, "x += 1" in the except block.
NextX(d, xx, accepted) ==
    IF accepted THEN TRY_AMOUNT(d) ELSE xx + 1

\* The local readN after one pass: "readN = masterTCP.execute(...)" binds it
\* as soon as execute returns, before the voltage check.
BindRead(d, out, old) ==
    IF out.ok THEN <<out.data>> ELSE old

\* Tag of one transaction in the attempt record.
Outcome(d, out) ==
    IF ~out.ok THEN "timeout" ELSE IF Accepted(d, out) THEN "ok" ELSE "rejected"

NoReads == [r \in 1..3 |-> << >>]

\* No request was sent yet.
NoQuery == [address |-> -1, count |-> 0]
NoReturn == [kind |-> "none", values |-> << >>]
ReturnFalse == [kind |-> "False", values |-> << >>]
ReturnValues(v) == [kind |-> "values", values |-> <<v>>]

\* Instants of the system clock: a minute and the seconds within it.
Clocks == { [minute |-> 0, second |-> sec] : sec \in {0, 30, 59} }

\* get_timestamp_for_influxdb(): utcnow() formatted "%Y-%m-%dT%H:%M:00Z",
\* the seconds being the literal 00.
get_timestamp_for_influxdb(now) == [minute |-> now.minute, second |-> 0]

\* values before get_data was entered.
NoValues == << >>

\* The first three entries every get_data puts in values.
Header(device_name, measurement_suffix, now) ==
    [Device_Name        |-> device_name,
     Measurement_Suffix |-> measurement_suffix,
     Date               |-> get_timestamp_for_influxdb(now)]

\* The Reading get_data returns: the header plus the fields, which are a
\* function of the bound locals read1..read3.
Reading(header, rd) ==
    [Device_Name        |-> header.Device_Name,
     Measurement_Suffix |-> header.Measurement_Suffix,
     Date               |-> header.Date,
     reads              |-> rd]

\* The Reading of drivers/raspberry.py: Device_Name "SOLARIAN_DATALOGGER",
\* the system figures, Date and Device_Serial; it has no Measurement_Suffix.
get_raspberry_internals(now) ==
    [Device_Name |-> 0,
     Date        |-> get_timestamp_for_influxdb(now),
     reads       |-> NoReads]

----------------------------------------------------------------------------
(* The device configuration.                                               *)

\* Device Descriptors the configurations are drawn from: every driver
\* enabled, an identifier without a driver module, and a disabled device
\* (the loop reads no other key of a disabled device).
DescriptorPool ==
    { [driver |-> d, enabled |-> TRUE, measurement |-> "suffix"] :
        d \in DriverIds \cup {UnknownDriver} }
    \cup { [driver |-> "dcb_kernel_st0hs2425", enabled |-> FALSE,
            measurement |-> "suffix"] }

\* One driver of each kind.  The drivers of a kind have the same TRY_AMOUNT,
\* number of ranges, voltage check and port handling, and differ only in the
\* registers they decode.
DriverKinds ==
    { "dcb_kernel_st0hs2425", "schneider_ion_7650", "inv_abb_pvs800",
      "inv_abb_pvs980", "ekk_socomec_dirisa10" }

\* The descriptors of DescriptorPool whose driver is not the like of another.
KindPool ==
    { d \in DescriptorPool : d.driver \in DriverKinds \cup {UnknownDriver} }

\* The configurations explored: every descriptor alone, and every list of up
\* to MaxDevices descriptors with one driver per kind.
Configs ==
    UNION { [1..k -> DescriptorPool] : k \in 0..1 }
    \cup UNION { [1..k -> KindPool] : k \in 2..MaxDevices }

\* A codec call that is not under test (specification Spec).
NoCodecCall ==
    [op |-> "none", start_bit |-> 0, stop_bit |-> 1, is_signed |-> FALSE,
     decimals |-> 0, data |-> [i \in 0..1 |-> 0], value |-> 0]
NoCodecResult ==
    [done |-> FALSE, raised |-> FALSE, num |-> Long(FALSE, 0, 0), den |-> 1,
     value |-> FloatZero, flags |-> << >>, values |-> << >>]

\* The state when __main__ calls main(args): nothing loaded, nothing read.
Init ==
    /\ cfg \in { << >> } \cup { <<c>> : c \in Configs }
    /\ devices = << >>
    /\ pc = "start"
    /\ idx = 1
    /\ data_package = << >>
    /\ results = << >>
    /\ calls = << >>
    /\ drv = ""
    /\ rng = 1
    /\ x = 0
    /\ reads = NoReads
    /\ values = NoValues
    /\ in_flight = << >>
    /\ attempts = << >>
    /\ prior_retried = FALSE
    /\ exhausted = FALSE
    /\ ret = NoReturn
    /\ args = {}
    /\ reached = {}
    /\ published = << >>
    /\ temp_file = << >>
    /\ final_file = << >>
    /\ log = {}
    /\ codec_in = NoCodecCall
    /\ codec_out = NoCodecResult
    /\ kill_now = FALSE
    /\ connections = {}
    /\ query = NoQuery
    /\ transactions = 0
    /\ servers = << >>
    /\ server = 1
    /\ offered = << >>

----------------------------------------------------------------------------
(* datalogger.py: main, up to the end of the device loop.                  *)

\* What became of one device of the configuration: the outcome of its
\* iteration, and two facts about the driver call recorded for reference:
\* whether a range ran out of attempts without an accepted one, and whether
\* every attempt of the budget was rejected by the zero-voltage check.
Result(outcome, ex, zp) == [outcome |-> outcome, exhausted |-> ex, zero_persisted |-> zp]

ZeroPersisted(d, att) ==
    /\ ZeroVoltageGate(d)
    /\ Len(att) >= TRY_AMOUNT(d)
    /\ \A k \in 1..Len(att) : att[k] = "rejected"

\* An exception that leaves main: the except clause of __main__ logs it and
\* the run ends.
MainException ==
    /\ pc' = "finished"
    /\ log' = log \cup { <<"main_exception", 0>> }

\* Mutant: a missing file is read as a list of one default device.
read_device_map_fallback(device_yaml) ==
    IF device_yaml = << >>
       THEN [raised |-> FALSE,
             device_map |-> << [driver |-> "dcb_kernel_st0hs2425", enabled |-> TRUE,
                                measurement |-> "suffix"] >>]
       ELSE [raised |-> FALSE, device_map |-> device_yaml[1]]

\* read_device_map(device_yaml): the assert raises when the file is missing,
\* else the list under the key 'devices' is returned in the order of the file.
read_device_map(device_yaml) ==
    IF device_yaml = << >>
       THEN [raised |-> TRUE, device_map |-> << >>]
       ELSE [raised |-> FALSE, device_map |-> device_yaml[1]]

\* devices = read_device_map(config_file), which stands in no try block of
\* main.
ReadDeviceMap ==
    /\ pc = "start"
    /\ LET read == read_device_map(cfg)
       IN  IF read.raised
              THEN /\ MainException
                   /\ UNCHANGED devices
              ELSE /\ devices' = read.device_map
                   /\ pc' = "loop"
                   /\ UNCHANGED log
    /\ UNCHANGED <<cfg, idx, data_package, results, calls, callVars, sinkVars,
                   codecVars, signalVars, busVars, mqttVars>>

\* Mutant: the test of the enabled key is missing.
IsEnabled_Always(device) == TRUE

\* "if device['enabled']"
IsEnabled(device) == device.enabled

\* Mutant: the try/except encloses the whole for loop, so the first
\* exception ends the loop.
AfterDeviceException_LoopAborted == "telemetry"

\* Where the run goes on after "except Exception as e: log.error(...)" in
\* the loop body: the next iteration.
AfterDeviceException == "loop"

\* The except clause of the loop body.
DeviceException ==
    /\ log' = log \cup { <<"device_exception", idx>> }
    /\ results' = Append(results, Result("exception", FALSE, FALSE))
    /\ idx' = idx + 1
    /\ pc' = AfterDeviceException

\* "if device['enabled']" is false: the body is skipped.
SkipDisabled ==
    /\ pc = "loop"
    /\ idx <= Len(devices)
    /\ ~IsEnabled(devices[idx])
    /\ results' = Append(results, Result("skipped", FALSE, FALSE))
    /\ idx' = idx + 1
    /\ UNCHANGED <<cfg, devices, pc, data_package, calls, callVars, sinkVars, log,
                   codecVars, signalVars, busVars, mqttVars>>

\* importlib.import_module raises: no module drivers.<driver>.
ImportFails ==
    /\ pc = "loop"
    /\ idx <= Len(devices)
    /\ IsEnabled(devices[idx])
    /\ devices[idx].driver \notin DriverIds
    /\ calls' = Append(calls, <<"import_module", idx>>)
    /\ DeviceException
    /\ UNCHANGED <<cfg, devices, data_package, callVars, sinkVars, codecVars, signalVars, busVars, mqttVars>>

\* The driver is imported and get_data runs up to its first retry loop: it
\* fills the header of values; the serial driver may raise while opening
\* its port.
CallDriver ==
    /\ pc = "loop"
    /\ idx <= Len(devices)
    /\ IsEnabled(devices[idx])
    /\ devices[idx].driver \in DriverIds
    /\ calls' = calls \o << <<"import_module", idx>>, <<"get_data", idx>> >>
    /\ \E opened \in (IF OpensSerialPort(devices[idx].driver) THEN BOOLEAN ELSE {TRUE}) :
          IF opened
             THEN /\ pc' = "retry"
                  /\ drv' = devices[idx].driver
                  /\ rng' = 1
                  /\ x' = 0
                  /\ reads' = NoReads
                  /\ \E now \in Clocks :
                        values' = Header(idx, devices[idx].measurement, now)
                  /\ attempts' = << >>
                  /\ prior_retried' = FALSE
                  /\ exhausted' = FALSE
                  /\ ret' = NoReturn
                  /\ connections' = IF OpensSerialPort(devices[idx].driver)
                                        THEN connections \cup {idx}
                                        ELSE connections
                  /\ transactions' = 0
                  /\ UNCHANGED <<idx, results, in_flight, log>>
             ELSE /\ DeviceException
                  /\ UNCHANGED <<callVars, connections, transactions>>
    /\ UNCHANGED <<cfg, devices, data_package, sinkVars, codecVars, signalVars,
                   query, mqttVars>>

\* Mutant: execute returns before the response, so that a second query can
\* be sent while the first is awaited.
MaySend_Pipelined(flight) == Len(flight) < 2

\* masterTCP.execute blocks until the response or the timeout: the next
\* query is sent only when none is awaited.
MaySend(flight) == flight = << >>

\* The loop body is entered and masterTCP.execute sends its query.
SendQuery ==
    /\ pc = "retry"
    /\ LoopContinues(drv, x)
    /\ MaySend(in_flight)
    /\ in_flight' = Append(in_flight, <<idx, rng>>)
    /\ query' = Request(drv, rng)
    /\ transactions' = transactions + 1
    /\ UNCHANGED <<cfg, devices, pc, idx, data_package, results, calls, drv, rng,
                   x, reads, values, attempts, prior_retried, exhausted, ret,
                   sinkVars, log, codecVars, signalVars, connections, mqttVars>>

\* The open connections after one pass of the loop body: a transaction that
\* returned a response went over an open connection, one that raised leaves
\* the connection as it was, and the finally clause, where there is one,
\* closes it.
AfterAttempt(d, out, conns, device) ==
    IF ClosesAfterAttempt(d) THEN conns \ {device}
    ELSE IF out.ok THEN conns \cup {device}
    ELSE conns

\* masterTCP.execute returns or raises, and the rest of the body of
\* "while x < TRY_AMOUNT" runs: one bus transaction is over.
Execute ==
    /\ pc = "retry"
    /\ in_flight # << >>
    /\ in_flight' = Tail(in_flight)
    /\ \E out \in BusOutcomes(drv, rng) :
          /\ reads' = [reads EXCEPT ![rng] = BindRead(drv, out, @)]
          /\ x' = NextX(drv, x, Accepted(drv, out))
          /\ attempts' = Append(attempts, Outcome(drv, out))
          /\ connections' = AfterAttempt(drv, out, connections, idx)
    /\ UNCHANGED <<cfg, devices, pc, idx, data_package, results, calls, drv, rng,
                   values, prior_retried, exhausted, ret, sinkVars, log,
                   codecVars, signalVars, query, transactions, mqttVars>>

\* Mutant: the test after the loop is missing, so the call goes on to the
\* next range with the name unbound.
MissingRead_Unchecked(rd) == FALSE

\* 'if not "readN" in locals()': no transaction of the range bound readN.
MissingRead(rd) == rd = << >>

\* The loop has ended: 'if not "readN" in locals(): return False', else the
\* next range, else the fields are parsed and values is returned.
LoopExit ==
    /\ pc = "retry"
    /\ in_flight = << >>
    /\ ~LoopContinues(drv, x)
    /\ exhausted' = (exhausted \/ \A k \in 1..Len(attempts) : attempts[k] # "ok")
    /\ IF MissingRead(reads[rng])
          THEN /\ ret' = ReturnFalse
               /\ pc' = "returned"
               /\ log' = log \cup { <<"scan_failed", idx>> }
               /\ UNCHANGED <<rng, x, attempts, prior_retried>>
          ELSE IF rng < NumRanges(drv)
          THEN /\ rng' = rng + 1
               /\ x' = 0
               /\ prior_retried' = (prior_retried \/ Len(attempts) > 1)
               /\ attempts' = << >>
               /\ UNCHANGED <<pc, ret, log>>
          ELSE /\ ret' = ReturnValues(Reading(values, reads))
               /\ pc' = "returned"
               /\ UNCHANGED <<rng, x, attempts, prior_retried, log>>
    /\ connections' = IF reads[rng] # << >> /\ rng = NumRanges(drv)
                             /\ ClosesAfterAttempt(drv)
                          THEN connections \ {idx}
                          ELSE connections
    /\ UNCHANGED <<cfg, devices, idx, data_package, results, calls, drv, reads,
                   values, in_flight, sinkVars, codecVars, signalVars, query,
                   transactions, mqttVars>>

\* Mutant: the Reading is put in front of the Batch.
CollectBatch_Prepend(batch, r) ==
    IF r.kind = "values" THEN r.values \o batch ELSE batch

\* "if data != False: data_package.append(data)"
CollectBatch(batch, r) ==
    IF r.kind = "values" THEN batch \o r.values ELSE batch

\* get_data has returned to the loop body of main.
Collect ==
    /\ pc = "returned"
    /\ data_package' = CollectBatch(data_package, ret)
    /\ results' = Append(results,
          Result(IF ret.kind = "values" THEN "reading" ELSE "false",
                 exhausted, ZeroPersisted(drv, attempts)))
    /\ idx' = idx + 1
    /\ pc' = "loop"
    /\ drv' = ""
    /\ rng' = 1
    /\ x' = 0
    /\ reads' = NoReads
    /\ values' = NoValues
    /\ attempts' = << >>
    /\ UNCHANGED in_flight
    /\ prior_retried' = FALSE
    /\ exhausted' = FALSE
    /\ ret' = NoReturn
    /\ query' = NoQuery
    /\ transactions' = 0
    /\ UNCHANGED <<cfg, devices, calls, sinkVars, log, codecVars, signalVars,
                   connections, mqttVars>>

\* The for loop has passed the last device.
LoopEnd ==
    /\ pc = "loop"
    /\ idx > Len(devices)
    /\ pc' = "telemetry"
    /\ UNCHANGED <<cfg, devices, idx, data_package, results, calls, callVars,
                   sinkVars, log, codecVars, signalVars, busVars, mqttVars>>

----------------------------------------------------------------------------
(* datalogger.py: main, after the device loop.  A command line flag is     *)
(* read at one place only, so its value is drawn where it is read.         *)

\* "if(args.log_raspberry)": import drivers.raspberry and append its
\* Reading; the statement stands in no try block, so what it raises
\* (psutil missing, float('') in measure_raspberry_cpu_temp) leaves main.
Telemetry ==
    /\ pc = "telemetry"
    /\ reached' = reached \cup {"telemetry"}
    /\ \E log_raspberry \in BOOLEAN, acquired \in BOOLEAN :
          IF ~log_raspberry
             THEN /\ acquired
                  /\ pc' = "mqtt"
                  /\ UNCHANGED <<args, data_package, log>>
             ELSE /\ args' = args \cup {"log_raspberry"}
                  /\ IF acquired
                        THEN /\ \E now \in Clocks :
                                   data_package' = Append(data_package,
                                                       get_raspberry_internals(now))
                             /\ pc' = "mqtt"
                             /\ UNCHANGED log
                        ELSE /\ MainException
                             /\ UNCHANGED data_package
    /\ UNCHANGED <<cfg, devices, idx, results, calls, callVars, published,
                   temp_file, final_file, codecVars, signalVars, busVars, mqttVars>>

\* The keys of a Reading in the order get_data (get_raspberry_internals for
\* the one without Measurement_Suffix) inserted them in the OrderedDict.
KeysOf(data) ==
    IF "Measurement_Suffix" \in DOMAIN data
       THEN <<"Device_Name", "Measurement_Suffix", "Date", "reads">>
       ELSE <<"Device_Name", "reads", "Date">>

\* Mutant: only the first member is written.
json_dumps_first_member(data) == << <<"Device_Name", data.Device_Name>> >>

\* json.dumps(data) for a Reading: the text of a JSON object, its members
\* (key, value) in the order of the OrderedDict.
json_dumps(data) ==
    [k \in 1..Len(KeysOf(data)) |-> <<KeysOf(data)[k], data[KeysOf(data)[k]]>>]

\* json.dump(data_package, file_to_write): the text of a JSON array, one
\* object per Reading in the order of the list.
json_dump(batch) == [k \in 1..Len(batch) |-> json_dumps(batch[k])]

\* send_data: the list mqtt_payload built for a server, one message per
\* Reading in the order of the Batch (the topic is the server's topic
\* followed by the Device_Name).
mqtt_payload(batch) ==
    [k \in 1..Len(batch) |->
        [topic |-> batch[k].Device_Name, payload |-> json_dumps(batch[k])]]

\* What send_data can come to: every enabled server was served, the publish
\* to a server raised (caught and logged in send_data's loop), or
\* get_mqtt_config raised before any payload was built (caught and logged by
\* main).
SendOutcomes == {"sent", "server_error", "config_error"}

\* "if args.mqtt_enabled": the assert on mqtt_file stands before the try
\* block; send_data stands inside it and does not touch data_package.
Publish ==
    /\ pc = "mqtt"
    /\ reached' = reached \cup {"mqtt"}
    /\ \E mqtt_enabled \in BOOLEAN, mqtt_file_exists \in BOOLEAN, sent \in SendOutcomes :
          IF ~mqtt_enabled
             THEN /\ mqtt_file_exists /\ sent = "sent"
                  /\ pc' = "write"
                  /\ UNCHANGED <<args, published, log>>
             ELSE /\ args' = args \cup {"mqtt_enabled"}
                  /\ IF ~mqtt_file_exists
                        THEN /\ sent = "sent"
                             /\ MainException
                             /\ UNCHANGED published
                        ELSE /\ published' = IF sent = "config_error" THEN published
                                             ELSE <<mqtt_payload(data_package)>>
                             /\ pc' = "write"
                             /\ log' = IF sent = "sent" THEN log
                                       ELSE log \cup { <<"mqtt_exception", 0>> }
    /\ UNCHANGED <<cfg, devices, idx, data_package, results, calls, callVars,
                   temp_file, final_file, codecVars, signalVars, busVars, mqttVars>>

\* Mutant: the file is opened at its final path.
WrittenPath_Final == "final"

\* "gzip.open(temp_file_name, 'wt', ...)": the path the Batch is written to.
WrittenPath == "temp"

\* What the opened path holds when the with block is left: the whole text
\* if json.dump returned; if gzip.open raised, nothing (the path is absent),
\* and if json.dump raised on the way, the part of the text written so far.
WrittenContents(text, written) ==
    IF written THEN { <<text>> }
    ELSE { << >> } \cup { <<SubSeq(text, 1, n)>> : n \in 0..(Len(text) - 1) }

\* "if not args.write_disabled": the Batch is written to the temporary
\* file; gzip.open and json.dump stand in no try block.
WriteTemp ==
    /\ pc = "write"
    /\ reached' = reached \cup {"write"}
    /\ \E write_disabled \in BOOLEAN, written \in BOOLEAN :
          IF write_disabled
             THEN /\ written
                  /\ args' = args \cup {"write_disabled"}
                  /\ pc' = "finished"
                  /\ UNCHANGED <<temp_file, final_file, log>>
             ELSE /\ UNCHANGED args
                  /\ \E contents \in WrittenContents(json_dump(data_package), written) :
                        IF WrittenPath = "temp"
                           THEN temp_file' = contents /\ UNCHANGED final_file
                           ELSE final_file' = contents /\ UNCHANGED temp_file
                  /\ IF written
                        THEN /\ pc' = "rename"
                             /\ UNCHANGED log
                        ELSE MainException
    /\ UNCHANGED <<cfg, devices, idx, data_package, results, calls, callVars,
                   published, codecVars, signalVars, busVars, mqttVars>>

\* os.rename(temp_file_name, file_name) inside its try block; it raises
\* when there is no file at temp_file_name.
Rename ==
    /\ pc = "rename"
    /\ \E renamed \in (IF temp_file = << >> THEN {FALSE} ELSE BOOLEAN) :
          IF renamed
             THEN /\ final_file' = temp_file
                  /\ temp_file' = << >>
                  /\ UNCHANGED log
             ELSE /\ log' = log \cup { <<"atomic_write_error", 0>> }
                  /\ UNCHANGED <<temp_file, final_file>>
    /\ pc' = "finished"
    /\ UNCHANGED <<cfg, devices, idx, data_package, results, calls, callVars,
                   args, reached, published, codecVars, signalVars, busVars, mqttVars>>

Next ==
    \/ ReadDeviceMap
    \/ SkipDisabled
    \/ ImportFails
    \/ CallDriver
    \/ SendQuery
    \/ Execute
    \/ LoopExit
    \/ Collect
    \/ LoopEnd
    \/ Telemetry
    \/ Publish
    \/ WriteTemp
    \/ Rename

Spec == Init /\ [][Next]_vars

\* One run of datalogger.py in which the process keeps running, on a
\* configuration of at most MaxLiveDevices devices: the
\* interpreter executes the next statement of main and of get_data, and a
\* transaction that was sent returns its response or raises, at the latest
\* when the time set by masterTCP.set_timeout(MODBUS_TIMEOUT) has passed.
InitLive ==
    /\ Init
    /\ cfg # << >> => Len(cfg[1]) <= MaxLiveDevices

SpecLive == InitLive /\ [][Next]_vars /\ WF_vars(Next)

----------------------------------------------------------------------------
(* datalogger.py: GracefulKiller.  The run of main with SIGINT and SIGTERM *)
(* arriving at any point of it.                                            *)

\* Mutant: no handler is installed, so the signal has its default
\* disposition and ends the run where it stands.
ResumeAfterSignal_Interrupted(position) == "finished"

\* signal.signal(SIGINT / SIGTERM, self.exit_gracefully): the handler runs
\* between two bytecodes of the main thread and returns, and the run resumes
\* where it stood.
ResumeAfterSignal(position) == position

\* exit_gracefully(signum, frame): "self.kill_now = True" (and an info line
\* in the log, which holds no error entry).
exit_gracefully ==
    /\ kill_now' = TRUE
    /\ pc' = ResumeAfterSignal(pc)
    /\ UNCHANGED <<cfg, devices, idx, data_package, results, calls, callVars,
                   sinkVars, log, codecVars, busVars, mqttVars>>

NextSignal == Next \/ exit_gracefully

\* One run of datalogger.py during which signals may arrive.
SpecSignal == Init /\ [][NextSignal]_vars

----------------------------------------------------------------------------
(* The register codec on its own: one call of convert_registers_to_long or *)
(* of signed on sampled arguments.                                         *)

\* Register words at the edges of the byte, sign and word boundaries.
WordSamples == { 0, 1, 255, 256, 32767, 32768, 65535 }

\* Values that are not 16-bit words.
BadWords == { -1, 65536 }

\* Malformed register data: a response that lacks offset 1, and responses
\* holding a value that is not a 16-bit word.
MalformedData ==
    { [i \in 0..0 |-> 0] }
    \cup { [i \in 0..1 |-> IF i = 0 THEN w ELSE 0] : w \in BadWords }

\* 47-word responses of the DCB: word i is seed * (i + 1) modulo 2^16, so
\* that seed 1000 gives 1000, 2000, ..., 47000.
DcbResponses ==
    { [i \in 0..46 |-> (seed * (i + 1)) % 65536] : seed \in {0, 1, 1000, 4369, 65535} }

\* 94-word responses of the ION 7650: word i is seed * (i + 1) modulo 2^16.
IonResponses ==
    { [i \in 0..93 |-> (seed * (i + 1)) % 65536] : seed \in {0, 1, 10, 700, 65535} }

\* Responses read1 and read3 of the two ABB drivers (7 words, and 8 or 13):
\* every word equal, or word i equal to seed * (i + 1) modulo 2^16.
PvsResponses(d) ==
    LET n3 == Request(d, 3).count
    IN  { [read1 |-> [i \in 0..6 |-> w], read3 |-> [i \in 0..(n3 - 1) |-> w]] :
            w \in {0, 1024, 3072, 8192, 21845, 43690, 65535} }
        \cup
        { [read1 |-> [i \in 0..6 |-> (seed * (i + 1)) % 65536],
           read3 |-> [i \in 0..(n3 - 1) |-> (seed * (i + 1)) % 65536]] :
            seed \in {1, 1025, 4369} }

\* Status words: none, one, alternate and all bits set.
StatusWords == { 0, 1, 2048, 21845, 32768, 43690, 65535 }

CodecCalls ==
    { [op |-> "long", start_bit |-> sb, stop_bit |-> 1 - sb, is_signed |-> sg,
       decimals |-> dc, data |-> dt, value |-> 0] :
          sb \in 0..1, sg \in BOOLEAN, dc \in 0..3, dt \in [0..1 -> WordSamples] }
    \cup
    { [op |-> "signed", start_bit |-> 0, stop_bit |-> 1, is_signed |-> TRUE,
       decimals |-> 0, data |-> [i \in 0..1 |-> 0], value |-> v] :
          v \in 0..65535 \cup BadWords }
    \cup
    { [op |-> "long", start_bit |-> sb, stop_bit |-> 1 - sb, is_signed |-> sg,
       decimals |-> dc, data |-> dt, value |-> 0] :
          sb \in 0..1, sg \in BOOLEAN, dc \in 0..3, dt \in MalformedData }
    \cup
    { [op |-> "bits", start_bit |-> 0, stop_bit |-> 1, is_signed |-> FALSE,
       decimals |-> 0, data |-> [i \in 0..1 |-> 0], value |-> w] :
          w \in StatusWords }
    \cup
    { [op |-> "dcb", start_bit |-> 0, stop_bit |-> 1, is_signed |-> FALSE,
       decimals |-> 0, data |-> dt, value |-> 0] : dt \in DcbResponses }
    \cup
    UNION { { [op |-> "status", driver |-> d, start_bit |-> 0, stop_bit |-> 1,
               is_signed |-> FALSE, decimals |-> 0, data |-> dt, value |-> 0] :
                  dt \in PvsResponses(d) } :
            d \in {"inv_abb_pvs800", "inv_abb_pvs980"} }
    \cup
    { [op |-> "ion", start_bit |-> 0, stop_bit |-> 1, is_signed |-> FALSE,
       decimals |-> 0, data |-> dt, value |-> 0] : dt \in IonResponses }

InitCodec ==
    /\ cfg = << >>
    /\ devices = << >>
    /\ pc = "codec"
    /\ idx = 1
    /\ data_package = << >>
    /\ results = << >>
    /\ calls = << >>
    /\ drv = ""
    /\ rng = 1
    /\ x = 0
    /\ reads = NoReads
    /\ values = NoValues
    /\ in_flight = << >>
    /\ attempts = << >>
    /\ prior_retried = FALSE
    /\ exhausted = FALSE
    /\ ret = NoReturn
    /\ args = {}
    /\ reached = {}
    /\ published = << >>
    /\ temp_file = << >>
    /\ final_file = << >>
    /\ log = {}
    /\ codec_in \in CodecCalls
    /\ codec_out = NoCodecResult
    /\ kill_now = FALSE
    /\ connections = {}
    /\ query = NoQuery
    /\ transactions = 0
    /\ servers = << >>
    /\ server = 1
    /\ offered = << >>

cycleVars == <<cfg, devices, pc, idx, data_package, results, calls, callVars,
               sinkVars>>

\* final_data = convert_registers_to_long(start_bit, stop_bit, signed, decimals, data);
\* the result records the exact quotient and the float returned.
ApplyLong ==
    /\ pc = "codec"
    /\ codec_in.op = "long"
    /\ ~codec_out.done
    /\ IF convert_registers_to_long_raises(codec_in.start_bit, codec_in.stop_bit,
                                           codec_in.data)
          THEN codec_out' = [NoCodecResult EXCEPT !.done = TRUE, !.raised = TRUE]
          ELSE LET final_data == convert_registers_to_long(codec_in.start_bit,
                                     codec_in.stop_bit, codec_in.is_signed,
                                     codec_in.decimals, codec_in.data)
               IN  codec_out' =
                      [NoCodecResult EXCEPT
                          !.done = TRUE,
                          !.num = final_data.num,
                          !.den = final_data.den,
                          !.value = float_truediv(final_data.num, final_data.den)]
    /\ UNCHANGED <<codec_in, cycleVars, log, signalVars, busVars, mqttVars>>

\* signed(value), an int; on a value pack refuses the except branch logs
\* the error before 0 is returned.
ApplySigned ==
    /\ pc = "codec"
    /\ codec_in.op = "signed"
    /\ ~codec_out.done
    /\ LET v == signed(codec_in.value)
       IN  codec_out' = [NoCodecResult EXCEPT
                            !.done = TRUE,
                            !.num = Long(v < 0, 0, IF v < 0 THEN 0 - v ELSE v)]
    /\ log' = IF pack_H(codec_in.value) = << >>
                 THEN log \cup { <<"signed_error", 0>> }
                 ELSE log
    /\ UNCHANGED <<codec_in, cycleVars, signalVars, busVars, mqttVars>>

\* One line "values['Status_...'] = float(word >> n & 1)" of the status
\* decoding, for any bit n of the word; flags records the extractions in the
\* order they were made.
ExtractBit ==
    /\ pc = "codec"
    /\ codec_in.op = "bits"
    /\ Len(codec_out.flags) < MaxExtractions
    /\ \E n \in 0..15 :
          codec_out' = [codec_out EXCEPT
                          !.done = TRUE,
                          !.flags = Append(@, [bit |-> n,
                                               value |-> StatusBit(codec_in.value, n)])]
    /\ UNCHANGED <<codec_in, cycleVars, log, signalVars, busVars, mqttVars>>

\* The parse of dcb_kernel_st0hs2425.get_data on a response read1.
ParseDcb ==
    /\ pc = "codec"
    /\ codec_in.op = "dcb"
    /\ ~codec_out.done
    /\ codec_out' = [NoCodecResult EXCEPT
                        !.done = TRUE,
                        !.values = dcb_values(codec_in.data)]
    /\ UNCHANGED <<codec_in, cycleVars, log, signalVars, busVars, mqttVars>>

\* The parse of schneider_ion_7650.get_data on a response read1.
ParseIon ==
    /\ pc = "codec"
    /\ codec_in.op = "ion"
    /\ ~codec_out.done
    /\ codec_out' = [NoCodecResult EXCEPT
                        !.done = TRUE,
                        !.values = ion_values(codec_in.data)]
    /\ UNCHANGED <<codec_in, cycleVars, log, signalVars, busVars, mqttVars>>

\* The status part of the parse of inv_abb_pvs800.get_data or of
\* inv_abb_pvs980.get_data on responses read1 and read3.
ParseStatus ==
    /\ pc = "codec"
    /\ codec_in.op = "status"
    /\ ~codec_out.done
    /\ codec_out' = [NoCodecResult EXCEPT
                        !.done = TRUE,
                        !.values = pvs_status(codec_in.driver, codec_in.data.read1,
                                              codec_in.data.read3)]
    /\ UNCHANGED <<codec_in, cycleVars, log, signalVars, busVars, mqttVars>>

NextCodec ==
    ApplyLong \/ ApplySigned \/ ExtractBit \/ ParseDcb \/ ParseIon \/ ParseStatus

SpecCodec == InitCodec /\ [][NextCodec]_vars

----------------------------------------------------------------------------
(* Properties of the acquisition cycle and of the retry protocol           *)
(* (specification Spec).                                                   *)

InCall == pc \in {"retry", "returned"}
LoopDone == pc \in {"telemetry", "mqtt", "write", "rename", "finished"} /\ cfg # << >>

\* The for loop of main has passed the last device.
LoopEnded == LoopDone \/ (pc = "loop" /\ idx > Len(devices))

AllAre(att, tag) == \A k \in 1..Len(att) : att[k] = tag
NoneIs(att, tag) == \A k \in 1..Len(att) : att[k] # tag

\* The Readings of the Batch that the device loop appended (the telemetry
\* Reading carries the name 0).
DeviceReadings == SelectSeq(data_package, LAMBDA r : r.Device_Name # 0)

Failed == { i \in 1..Len(results) : results[i].outcome \in {"false", "exception"} }
Succeeded == { i \in 1..Len(results) : results[i].outcome = "reading" }
Enabled == { i \in 1..Len(devices) : devices[i].enabled }

\* C1: all-or-nothing per device.  A Reading is returned and appended to the
\* Batch only if every range the driver requires had an accepted attempt
\* within its budget in that call; a call in which a range ran out of
\* attempts returns the failure sentinel, and every Reading of the Batch
\* carries all the ranges of its driver.
C1_AllOrNothing ==
    /\ \A i \in 1..Len(results) :
          results[i].outcome = "reading" => ~results[i].exhausted
    /\ (pc = "returned" /\ exhausted) => ret = ReturnFalse
    /\ (pc = "returned" /\ ret.kind = "values") =>
          \A r \in 1..NumRanges(drv) : reads[r] # << >>
    /\ \A k \in 1..Len(DeviceReadings) :
          LET rd == DeviceReadings[k]
          IN  \A r \in 1..NumRanges(devices[rd.Device_Name].driver) :
                 rd.reads[r] # << >>

\* C2 as stated: when the device loop has ended over N configured devices of
\* which M failed (failure sentinel or exception), the Batch built by the
\* loop holds exactly N - M Readings, in configuration order.
C2_ConfiguredMinusFailed ==
    LoopEnded =>
        /\ Len(DeviceReadings) = Len(devices) - Cardinality(Failed)
        /\ \A j, k \in 1..Len(DeviceReadings) :
              j < k => DeviceReadings[j].Device_Name < DeviceReadings[k].Device_Name

\* C2 amended: with N the number of enabled devices of the configuration and
\* M the number of them that failed, the Batch built by the loop holds
\* exactly N - M Readings, one per device that succeeded, in configuration
\* order; and at any point of the loop the Batch holds the Readings of the
\* devices that succeeded so far, in that order.
C2_EnabledMinusFailed ==
    /\ Len(DeviceReadings) = Cardinality(Succeeded)
    /\ \A k \in 1..Len(DeviceReadings) : DeviceReadings[k].Device_Name \in Succeeded
    /\ \A j, k \in 1..Len(DeviceReadings) :
          j < k => DeviceReadings[j].Device_Name < DeviceReadings[k].Device_Name
    /\ LoopEnded =>
          Len(DeviceReadings) = Cardinality(Enabled) - Cardinality(Failed)

\* C2 witness: two enabled devices, the first failed, the second succeeded,
\* and the Batch holds the one Reading of the second.
C2_Witness ==
    /\ pc = "telemetry"
    /\ Len(devices) = 2 /\ devices[1].enabled /\ devices[2].enabled
    /\ results[1].outcome = "false" /\ results[2].outcome = "reading"
    /\ Len(data_package) = 1 /\ data_package[1].Device_Name = 2

\* The attempt count each driver module configures.
ConfiguredAttempts(d) == IF d = "inv_abb_pvs980" THEN 10 ELSE 3

\* C3: when every transaction of a range fails on the bus, get_data issues
\* exactly TRY_AMOUNT transactions for the range (3; 10 in inv_abb_pvs980):
\* never more, the loop goes on while fewer were issued, and the call then
\* returns False.
C3_ExactBudgetOnTotalFailure ==
    (InCall /\ AllAre(attempts, "timeout")) =>
        LET n == Len(attempts)
            budget == ConfiguredAttempts(drv)
        IN  /\ n <= budget
            /\ n < budget => (pc = "retry" /\ x = n /\ ret = NoReturn)
            /\ n = budget => (reads[rng] = << >> /\ x >= budget)
            /\ pc = "returned" => (n = budget /\ ret = ReturnFalse)

\* C3 witness: inv_abb_pvs980 returned False after ten timeouts on read2.
C3_Witness ==
    /\ pc = "returned"
    /\ drv = "inv_abb_pvs980" /\ rng = 2
    /\ Len(attempts) = 10 /\ AllAre(attempts, "timeout")
    /\ ret = ReturnFalse

\* C4: retries are local to one range and stop at the first success.  No
\* transaction of a range follows its first accepted attempt, so a first
\* success at attempt k means exactly k transactions; until then the counter
\* equals the number of transactions of this range alone, whatever earlier
\* ranges consumed, so each range has its full budget; and a call whose last
\* range was accepted returns a Reading.
C4_RetriesLocalStopAtSuccess ==
    InCall =>
        LET n == Len(attempts)
        IN  /\ \A k \in 1..n : attempts[k] = "ok" => k = n
            /\ n <= ConfiguredAttempts(drv)
            /\ (pc = "retry" /\ NoneIs(attempts, "ok")) => x = n
            /\ (n > 0 /\ attempts[n] = "ok") => reads[rng] # << >>
            /\ (pc = "returned" /\ n > 0 /\ attempts[n] = "ok") => ret.kind = "values"

\* C4 witness: inv_abb_pvs800 returned a Reading after read3 succeeded on the
\* 2nd of 3 attempts, an earlier range having needed retries too.
C4_Witness ==
    /\ pc = "returned"
    /\ drv = "inv_abb_pvs800" /\ rng = 3 /\ prior_retried
    /\ attempts = <<"timeout", "ok">>
    /\ ret.kind = "values"

\* C5: in the drivers with the zero-voltage check, a response whose voltage
\* slice decodes to 0 does not end the call: every attempt so far has cost
\* exactly one attempt of the budget, and while attempts remain the call is
\* still in the retry loop of the same range, about to read it again.
C5_ZeroVoltageConsumesOneAttempt ==
    (InCall /\ ZeroVoltageGate(drv) /\ Len(attempts) > 0
            /\ attempts[Len(attempts)] = "rejected") =>
        LET n == Len(attempts)
        IN  /\ x = n
            /\ reads[1] # << >> /\ reads[1][1][VoltageHi] = 0 /\ reads[1][1][VoltageLo] = 0
            /\ n < ConfiguredAttempts(drv) =>
                  (pc = "retry" /\ rng = 1 /\ ret = NoReturn /\ LoopContinues(drv, x))

\* C5 witness: a gated driver returned a Reading from the second attempt
\* after the first response decoded to zero voltage.
C5_Witness ==
    /\ pc = "returned"
    /\ ZeroVoltageGate(drv)
    /\ attempts = <<"rejected", "ok">>
    /\ ret.kind = "values"

\* C6: in the drivers with the zero-voltage check, when every attempt of the
\* budget returns a response whose voltage slice decodes to 0, get_data
\* returns the failure sentinel and no Reading of the device enters the Batch.
C6_PersistentZeroVoltageFails ==
    /\ (pc = "returned" /\ ZeroPersisted(drv, attempts)) => ret = ReturnFalse
    /\ \A i \in 1..Len(results) :
          results[i].zero_persisted =>
              /\ results[i].outcome = "false"
              /\ \A k \in 1..Len(data_package) : data_package[k].Device_Name # i

\* C7: a per-device failure never aborts the cycle.  The loop passes the
\* devices one by one whatever became of the earlier ones, so once it has
\* ended every enabled device has been tried; and each failure is logged.
C7_FailureNeverAbortsCycle ==
    /\ pc \in {"loop", "retry", "returned"} => idx = Len(results) + 1
    /\ LoopDone =>
          /\ Len(results) = Len(devices)
          /\ \A j \in 1..Len(devices) :
                devices[j].enabled => results[j].outcome # "skipped"
    /\ \A i \in 1..Len(results) :
          /\ results[i].outcome = "exception" => <<"device_exception", i>> \in log
          /\ results[i].outcome = "false" => <<"scan_failed", i>> \in log

\* C7 witness: the first device names a driver that cannot be imported, and
\* the second one was read all the same.
C7_Witness ==
    /\ pc = "telemetry"
    /\ Len(devices) = 2
    /\ devices[1].driver = UnknownDriver
    /\ results[1].outcome = "exception"
    /\ results[2].outcome = "reading"

\* C8: once the configuration is loaded no exception aborts the cycle: the
\* run ends having gone through the telemetry, publish and write steps, and
\* no exception has left main.
C8_NoExceptionAbortsCycle ==
    (pc = "finished" /\ cfg # << >>) =>
        /\ reached = {"telemetry", "mqtt", "write"}
        /\ <<"main_exception", 0>> \notin log

----------------------------------------------------------------------------
(* Properties of the register codec (specification SpecCodec).             *)

\* The call of convert_registers_to_long under test has both its offsets in
\* the data and 16-bit words at them.
WellFormedLong ==
    /\ {codec_in.start_bit, codec_in.stop_bit} \subseteq DOMAIN codec_in.data
    /\ codec_in.data[codec_in.start_bit] \in 0..65535
    /\ codec_in.data[codec_in.stop_bit] \in 0..65535

\* The int signed() returned, from its recorded form.
SignedResult == IF codec_out.num.neg THEN 0 - codec_out.num.lo ELSE codec_out.num.lo

\* The scale the claim attaches to each value of decimals.
ScaleOf(dc) == CASE dc = 0 -> 1 [] dc = 1 -> 10 [] dc = 2 -> 100 [] dc = 3 -> 1000

\* C9: convert_registers_to_long(hi_idx, lo_idx, signed, decimals, data)
\* returns V / 10^decimals with V = data[hi_idx] * 65536 + data[lo_idx] when
\* unsigned or when V < 2^31, and V - 2^32 when signed and V >= 2^31 (stated
\* on the limbs: the magnitude m of a negative result satisfies m + V = 2^32);
\* unsigned numerators lie in 0..2^32-1, signed ones in -2^31..2^31-1.
C9_ConvertRegistersToLong ==
    (codec_out.done /\ codec_in.op = "long" /\ WellFormedLong) =>
        LET hi == codec_in.data[codec_in.start_bit]
            lo == codec_in.data[codec_in.stop_bit]
            n  == codec_out.num
        IN  /\ ~codec_out.raised
            /\ codec_out.den = ScaleOf(codec_in.decimals)
            /\ n.hi \in 0..65535 /\ n.lo \in 0..65535
            /\ IF codec_in.is_signed /\ hi >= 32768
                  THEN /\ n.neg
                       /\ (n.lo + lo) % 65536 = 0
                       /\ n.hi + hi + (n.lo + lo) \div 65536 = 65536
                       /\ (n.hi < 32768 \/ (n.hi = 32768 /\ n.lo = 0))
                       /\ (n.hi > 0 \/ n.lo > 0)
                  ELSE /\ ~n.neg
                       /\ n.hi = hi /\ n.lo = lo
                       /\ codec_in.is_signed => n.hi <= 32767

\* C9 witness: a signed conversion with decimals 3 of a pair whose high word
\* has the sign bit set and differs from the low word.
C9_Witness ==
    /\ codec_out.done /\ codec_in.op = "long" /\ WellFormedLong
    /\ codec_in.is_signed /\ codec_in.decimals = 3
    /\ codec_in.start_bit = 1
    /\ codec_in.data[1] = 65535 /\ codec_in.data[0] = 256
    /\ codec_out.num = Long(TRUE, 0, 65280)
    /\ codec_out.den = 1000

\* C10: signed(value) reinterprets a 16-bit word as a signed 16-bit integer:
\* value below 32768 is returned as is, otherwise value - 65536; the result
\* lies in -32768..32767 and is congruent to value modulo 65536.
C10_Signed16 ==
    (codec_out.done /\ codec_in.op = "signed" /\ codec_in.value \in 0..65535) =>
        LET v == codec_in.value
            r == SignedResult
        IN  /\ ~codec_out.raised
            /\ r = (IF v < 32768 THEN v ELSE v - 65536)
            /\ r \in -32768..32767
            /\ (r - v) % 65536 = 0

\* C10 witness: signed(32768) was applied and gave -32768.
C10_Witness ==
    /\ codec_out.done /\ codec_in.op = "signed"
    /\ codec_in.value = 32768
    /\ SignedResult = -32768

----------------------------------------------------------------------------
(* Round trip of the decode (specification SpecCodec).                     *)

\* The value of a bit string of at most 16 bits, most significant first.
RECURSIVE BitsValue(_)
BitsValue(bits) ==
    IF bits = << >> THEN 0
    ELSE 2 * BitsValue(SubSeq(bits, 1, Len(bits) - 1)) + bits[Len(bits)]

\* Number of significand bits of a float that stand before the binary point.
IntegerBitCount(f) == IF f = FloatZero THEN 0 ELSE 53 + f.exp

\* The bits of a float after the binary point that its significand holds
\* (a float below 1/2 has none that matter for rounding to an integer
\* except that it is not zero).
FractionBits(f) ==
    IF f = FloatZero \/ f.exp >= 0 THEN << >>
    ELSE IF IntegerBitCount(f) < 0 THEN <<0, 1>>
    ELSE SubSeq(f.bits, IntegerBitCount(f) + 1, 53)

\* The float is a whole number.
IsIntegral(f) == \A j \in 1..Len(FractionBits(f)) : FractionBits(f)[j] = 0

\* The integer part of a float below 2^32 as 32 bits.
IntegerPart(f) ==
    LET n == IntegerBitCount(f)
    IN  [i \in 1..32 |-> IF n > 0 /\ i > 32 - n THEN f.bits[i - (32 - n)] ELSE 0]

\* A 32-bit string as an int.
LongOfBits(neg, b) ==
    Long(neg /\ (\E i \in 1..32 : b[i] = 1),
         BitsValue(SubSeq(b, 1, 16)), BitsValue(SubSeq(b, 17, 32)))

\* int(f): the float truncated towards zero.
Truncated(f) == LongOfBits(f # FloatZero /\ f.neg, IntegerPart(f))

\* round(f): the nearest int, a tie going to the even one.
Rounded(f) ==
    LET fr   == FractionBits(f)
        ip   == IntegerPart(f)
        up   == /\ fr # << >>
                /\ fr[1] = 1
                /\ \/ \E j \in 2..Len(fr) : fr[j] = 1
                   \/ ip[32] = 1
    IN  LongOfBits(f # FloatZero /\ f.neg, IF up THEN Increment(ip).bits ELSE ip)

\* The words of struct.pack('>l', v) when signed and of struct.pack('>L', v)
\* otherwise, as <<high, low>>; << >> when v is out of range.
Encode(v, is_signed) ==
    IF ~v.neg
       THEN IF is_signed /\ v.hi > 32767 THEN << >> ELSE <<v.hi, v.lo>>
       ELSE IF ~is_signed \/ v.hi > 32768 \/ (v.hi = 32768 /\ v.lo > 0)
            THEN << >>
            ELSE << 65535 - v.hi + (IF v.lo = 0 THEN 1 ELSE 0),
                    (65536 - v.lo) % 65536 >>

\* The decoded float of the call, multiplied by the scale of its decimals.
Rescaled == float_mul(codec_out.value, ScaleOf(codec_in.decimals))

\* The word pair (high, low) the call decoded.
DecodedPair == <<codec_in.data[codec_in.start_bit], codec_in.data[codec_in.stop_bit]>>

\* The float another word pair decodes to under the flags of the call.
DecodeOf(hi, lo) ==
    LET c == convert_registers_to_long(0, 1, codec_in.is_signed, codec_in.decimals,
                                       [i \in 0..1 |-> IF i = 0 THEN hi ELSE lo])
    IN  float_truediv(c.num, c.den)

\* Distinct word pairs decode to distinct floats.
DecodeInjective ==
    \A hi \in WordSamples, lo \in WordSamples :
        <<hi, lo>> # DecodedPair => DecodeOf(hi, lo) # codec_out.value

\* C11 as stated: for every word pair, signedness and scale, the decoded
\* value multiplied by the scale is the integer that was decoded, and its
\* 32-bit big-endian encoding is the original pair; distinct pairs decode to
\* distinct values.
C11_RoundTripExact ==
    (codec_out.done /\ codec_in.op = "long" /\ WellFormedLong) =>
        /\ IsIntegral(Rescaled)
        /\ Encode(Truncated(Rescaled), codec_in.is_signed) = DecodedPair
        /\ DecodeInjective

\* C11 amended: the decoded value multiplied by the scale, rounded to the
\* nearest integer, is the integer that was decoded, and its 32-bit
\* big-endian encoding is the original pair; distinct pairs decode to
\* distinct values.
C11_RoundTripRounded ==
    (codec_out.done /\ codec_in.op = "long" /\ WellFormedLong) =>
        /\ Rounded(Rescaled) = codec_out.num
        /\ Encode(Rounded(Rescaled), codec_in.is_signed) = DecodedPair
        /\ DecodeInjective

\* C11 witness: the pair (0, 255) decoded with decimals 2 gives 2.55, whose
\* product by 100 is the float just below 255; rounding recovers the pair,
\* truncation does not.
C11_Witness ==
    /\ codec_out.done /\ codec_in.op = "long" /\ WellFormedLong
    /\ DecodedPair = <<0, 255>> /\ codec_in.decimals = 2
    /\ ~IsIntegral(Rescaled)
    /\ Truncated(Rescaled) = Long(FALSE, 0, 254)
    /\ Encode(Rounded(Rescaled), codec_in.is_signed) = <<0, 255>>

----------------------------------------------------------------------------
(* Status flags (specification SpecCodec).                                 *)

\* Bit n of a word is set: the word, reduced to its n + 1 low bits, reaches 2^n.
BitIsSet(word, n) == word % 2 ^ (n + 1) >= 2 ^ n

\* C12: every extracted status flag is 0.0 or 1.0, and 1.0 exactly when bit n
\* of the raw word is set, whatever was extracted before or after it, the
\* same bit again included.
C12_FlagIsBitOfWord ==
    codec_in.op = "bits" =>
        \A k \in 1..Len(codec_out.flags) :
            LET e == codec_out.flags[k]
            IN  /\ e.value \in {FloatZero, FloatOne}
                /\ e.value = FloatOne <=> BitIsSet(codec_in.value, e.bit)

\* C12: extracting a bit never changes the status word, nor a flag that was
\* extracted before.
C12_ExtractionLeavesWord ==
    [][ /\ codec_in' = codec_in
        /\ \A k \in 1..Len(codec_out.flags) :
              codec_in.op = "bits" => codec_out'.flags[k] = codec_out.flags[k] ]_vars

\* C12: status-bit extraction yields 0 or 1, the bit of the raw word, leaves
\* the word alone, and is repeatable and independent of the order.
C12_StatusBitExtraction == []C12_FlagIsBitOfWord /\ C12_ExtractionLeavesWord

\* C12 witness: of the word 0xAAAA bit 1 was extracted, then bit 0, giving 1.0
\* and 0.0.
C12_Witness ==
    /\ codec_in.op = "bits" /\ codec_in.value = 43690
    /\ Len(codec_out.flags) = 2
    /\ codec_out.flags[1] = [bit |-> 1, value |-> FloatOne]
    /\ codec_out.flags[2] = [bit |-> 0, value |-> FloatZero]

----------------------------------------------------------------------------
(* Decoding malformed input (specification SpecCodec).                     *)

\* The codec call under test was given malformed input: an offset missing
\* from the data, or a value that is not a 16-bit word.
MalformedCall ==
    \/ codec_in.op = "long" /\ ~WellFormedLong
    \/ codec_in.op = "signed" /\ codec_in.value \notin 0..65535

\* C13: a codec decode on malformed input (an offset missing from the
\* response, a value that is not a 16-bit word) does not raise: it returns
\* the default 0 and an error is logged.
C13_MalformedDecodesToZero ==
    (codec_out.done /\ MalformedCall) =>
        /\ ~codec_out.raised
        /\ codec_out.num = Long(FALSE, 0, 0)
        /\ log # {}

----------------------------------------------------------------------------
(* The decode of the DCB driver (specification SpecCodec).                 *)

\* The float f is the whole number w (a register word).
IsWordValue(f, w) == IsIntegral(f) /\ Truncated(f) = Long(FALSE, 0, w)

\* The float f is w / d as far as a float can tell: it is the whole number
\* w / d when d divides w, and f * d rounds to w in any case.
IsQuotient(f, w, d) ==
    /\ Rounded(float_mul(f, d)) = Long(FALSE, 0, w)
    /\ w % d = 0 => IsWordValue(f, w \div d)

\* C14: for every 47-word response read1 the DCB Reading has
\* I_DC_k = read1[k-1] / 1000 for k in 1..24, V_DC = read1[32],
\* Cabinet_Temp = read1[37], Board_Temp = read1[38],
\* Total_Current = read1[39] / 10 and Power = read1[41] * 65536 + read1[40].
C14_DcbGoldenDecode ==
    (codec_out.done /\ codec_in.op = "dcb") =>
        LET read1 == codec_in.data
            v     == codec_out.values
        IN  /\ \A k \in 1..24 : IsQuotient(v.I_DC[k], read1[k - 1], 1000)
            /\ IsWordValue(v.V_DC, read1[32])
            /\ IsWordValue(v.Cabinet_Temp, read1[37])
            /\ IsWordValue(v.Board_Temp, read1[38])
            /\ IsQuotient(v.Total_Current, read1[39], 10)
            /\ IsIntegral(v.Power)
            /\ Truncated(v.Power) = Long(FALSE, read1[41], read1[40])

\* C14 witness: the response 1000, 2000, ..., 47000 was decoded: I_DC_1 is
\* 1.0, I_DC_2 is 2.0, Total_Current is 4000.0 and Power is
\* 42000 * 65536 + 41000.
C14_Witness ==
    /\ codec_out.done /\ codec_in.op = "dcb"
    /\ codec_in.data[0] = 1000 /\ codec_in.data[1] = 2000
    /\ codec_out.values.I_DC[1] = FloatOne
    /\ codec_out.values.I_DC[2] = float(Long(FALSE, 0, 2))
    /\ codec_out.values.Total_Current = float(Long(FALSE, 0, 4000))
    /\ Truncated(codec_out.values.Power) = Long(FALSE, 42000, 41000)

----------------------------------------------------------------------------
(* The fields every Reading carries (specification Spec).                  *)

\* C15: every Reading of the Batch, the system-telemetry Reading included,
\* holds Device_Name, Measurement_Suffix and Date, and the seconds of Date
\* are 00.
C15_ReadingHeaderFields ==
    \A k \in 1..Len(data_package) :
        /\ {"Device_Name", "Measurement_Suffix", "Date"} \subseteq DOMAIN data_package[k]
        /\ data_package[k].Date.second = 0

----------------------------------------------------------------------------
(* Polling of the devices (specification Spec).                            *)

\* How many times the module of device i was imported / its get_data called.
CountOf(kind, i) == Cardinality({ k \in 1..Len(calls) : calls[k] = <<kind, i>> })

\* The devices the loop has dealt with: all of them once it has ended.
Passed == 1..Len(results)

\* The imports and calls follow the configuration order, the import of a
\* device coming before its call.
CallsInOrder ==
    \A j, k \in 1..Len(calls) :
        j < k => \/ calls[j][2] < calls[k][2]
                 \/ /\ calls[j][2] = calls[k][2]
                    /\ calls[j][1] = "import_module"
                    /\ calls[k][1] = "get_data"

\* No driver is loaded and no get_data is called for a disabled device.
DisabledNeverPolled ==
    \A k \in 1..Len(calls) : devices[calls[k][2]].enabled

\* A bus transaction is issued only inside the get_data call of the device
\* the loop stands at, which is enabled.
TransactionsInsideCall ==
    [][ Len(attempts') > Len(attempts) =>
            /\ pc = "retry"
            /\ devices[idx].enabled
            /\ calls[Len(calls)] = <<"get_data", idx>> ]_vars

\* C16 as stated: in one cycle each enabled device gets exactly one driver
\* call, the calls are made in configuration order, and a disabled device is
\* never polled (no driver loaded, no bus transaction).
C16_OneCallPerEnabledDevice ==
    /\ \A i \in Passed : devices[i].enabled => CountOf("get_data", i) = 1
    /\ CallsInOrder
    /\ DisabledNeverPolled

\* C16 amended, the state part: each enabled device is polled exactly once,
\* that is, its driver is resolved once and, when the driver module exists,
\* get_data is called once (not at all when it does not exist); no device is
\* called twice; the calls are made in configuration order; a disabled
\* device is never polled.
C16_PolledOnce ==
    /\ \A i \in Passed :
          devices[i].enabled =>
              /\ CountOf("import_module", i) = 1
              /\ CountOf("get_data", i) =
                    (IF devices[i].driver \in DriverIds THEN 1 ELSE 0)
    /\ \A i \in 1..Len(devices) : CountOf("get_data", i) <= 1
    /\ LoopEnded => Passed = 1..Len(devices)
    /\ CallsInOrder
    /\ DisabledNeverPolled

\* C16 amended: each enabled device is polled exactly once, in configuration
\* order, with one driver call when its driver module exists; a disabled
\* device is never polled, and bus transactions are issued only inside the
\* driver call of an enabled device.
C16_EnabledPolledOnceInOrder == []C16_PolledOnce /\ TransactionsInsideCall

\* C16 witness: a disabled device followed by an enabled one; the loop has
\* ended having loaded one driver and made one call, for the second device.
C16_Witness ==
    /\ pc = "telemetry"
    /\ Len(devices) = 2 /\ ~devices[1].enabled /\ devices[2].enabled
    /\ calls = << <<"import_module", 2>>, <<"get_data", 2>> >>
    /\ results[2].outcome = "reading"

----------------------------------------------------------------------------
(* The Batch and the output sinks (specification Spec).                    *)

\* The JSON object text holds the members of the Reading, each once, with
\* the values the Reading has, and nothing else.
SameReading(text, r) ==
    /\ Len(text) = Cardinality(DOMAIN r)
    /\ \A k \in 1..Len(text) : text[k][1] \in DOMAIN r /\ text[k][2] = r[text[k][1]]
    /\ \A j, k \in 1..Len(text) : text[j][1] = text[k][1] => j = k

\* The JSON array text holds the Readings of the Batch in the order of the
\* Batch.
SameBatch(texts, batch) ==
    /\ Len(texts) = Len(batch)
    /\ \A k \in 1..Len(batch) : SameReading(texts[k], batch[k])

\* The acquisition is over: the run stands at or after the publish step.
AcquisitionOver == pc \in {"mqtt", "write", "rename"}

\* C17, the state part: what was published and what was written are the
\* Readings of the Batch, in its order, with its field values.
C17_SinksHoldTheBatch ==
    /\ published # << >> =>
          /\ Len(published[1]) = Len(data_package)
          /\ \A k \in 1..Len(data_package) :
                /\ published[1][k].topic = data_package[k].Device_Name
                /\ SameReading(published[1][k].payload, data_package[k])
    /\ (temp_file # << >> /\ <<"main_exception", 0>> \notin log) =>
          SameBatch(temp_file[1], data_package)
    /\ final_file # << >> => SameBatch(final_file[1], data_package)

\* C17: the Batch is handed to the sinks unmodified: once acquisition has
\* finished no step changes the Batch (publishing included), and the
\* Readings published and the Readings written to the file are those of the
\* Batch, in the same order with the same field values.
C17_BatchHandedUnmodified ==
    /\ []C17_SinksHoldTheBatch
    /\ [][AcquisitionOver => data_package' = data_package]_vars

\* C17 witness: a device Reading and the telemetry Reading were published
\* and written, and the file was renamed into place.
C17_Witness ==
    /\ pc = "finished"
    /\ Len(data_package) = 2
    /\ data_package[1].Device_Name = 1 /\ data_package[2].Device_Name = 0
    /\ published # << >> /\ Len(published[1]) = 2
    /\ final_file # << >> /\ Len(final_file[1]) = 2

\* The publish step failed: send_data or a publish inside it raised, or the
\* run ended at the publish step (the assert on the MQTT configuration file).
PublishFailed ==
    \/ <<"mqtt_exception", 0>> \in log
    \/ /\ pc = "finished"
       /\ "mqtt_enabled" \in args
       /\ "write" \notin reached

\* C18: a failure of the broker publish does not roll back acquired data:
\* it is logged, what was published is still the Batch, and the run goes on
\* to the write step, where the file of that Batch is written unless
\* writing is disabled.
C18_PublishFailureKeepsBatch ==
    PublishFailed =>
        /\ log \cap { <<"mqtt_exception", 0>>, <<"main_exception", 0>> } # {}
        /\ published # << >> => Len(published[1]) = Len(data_package)
        /\ pc = "finished" => "write" \in reached
        /\ (pc = "rename" /\ temp_file # << >>) => SameBatch(temp_file[1], data_package)

----------------------------------------------------------------------------
(* A missing configuration (specification Spec).                           *)

\* C19: when the device configuration file is missing the run ends at once
\* with the exception logged: no device list is used in its place, no driver
\* is loaded or called, no bus transaction is issued, nothing is published
\* and no file is written.
C19_MissingConfigIsFatal ==
    cfg = << >> =>
        /\ pc \in {"start", "finished"}
        /\ pc = "finished" => <<"main_exception", 0>> \in log
        /\ devices = << >> /\ data_package = << >>
        /\ calls = << >> /\ attempts = << >> /\ results = << >>
        /\ published = << >> /\ temp_file = << >> /\ final_file = << >>
        /\ reached = {}

\* C19 witness: the run has ended on a missing configuration file.
C19_Witness ==
    /\ cfg = << >>
    /\ pc = "finished"
    /\ log = { <<"main_exception", 0>> }
    /\ calls = << >> /\ published = << >> /\ final_file = << >>

----------------------------------------------------------------------------
(* Sequential execution (specification Spec).                              *)

\* C20: execution is strictly sequential: at most one bus transaction is in
\* flight; a transaction in flight belongs to the range being read by the
\* driver call of the device the loop stands at, every earlier device of
\* the configuration having been dealt with (its call returned a Reading or
\* the failure sentinel, or raised, or it was skipped) and no later device
\* having been called; outside a driver call nothing is in flight.
C20_StrictlySequential ==
    /\ Len(in_flight) <= 1
    /\ in_flight # << >> =>
          /\ pc = "retry"
          /\ in_flight[1] = <<idx, rng>>
          /\ Len(results) = idx - 1
          /\ calls[Len(calls)] = <<"get_data", idx>>
          /\ ret = NoReturn
    /\ CallsInOrder

\* C20 witness: the first transaction of the second device is in flight, the
\* call of the first device having returned a Reading.
C20_Witness ==
    /\ in_flight = << <<2, 1>> >>
    /\ attempts = << >>
    /\ Len(results) = 1 /\ results[1].outcome = "reading"

----------------------------------------------------------------------------
(* Signals (specification SpecSignal).                                     *)

\* Everything of the run but the stop request.
runVars ==
    <<cfg, devices, pc, idx, data_package, results, calls, callVars, sinkVars,
      log, busVars>>

\* A step that records a stop request changes nothing else: the position of
\* the run, the transaction in flight, the attempt counter and the responses
\* read so far are what they were.
SignalOnlyRecords ==
    [][kill_now' # kill_now => (kill_now' = TRUE /\ UNCHANGED runVars)]_vars

\* A recorded stop request stays recorded, and a run that has ended does not
\* start a new cycle.
StopRequestStands ==
    [][ /\ kill_now => kill_now'
        /\ pc = "finished" => pc' = "finished" ]_vars

\* With a stop request recorded the cycle is carried through as without one:
\* a run that ended without an exception leaving main went through every
\* device and through the telemetry, publish and write steps, and a driver
\* call returned only when its retry loop was over.
CycleCarriedThrough ==
    kill_now =>
        /\ (pc = "finished" /\ cfg # << >> /\ <<"main_exception", 0>> \notin log) =>
              /\ Len(results) = Len(devices)
              /\ reached = {"telemetry", "mqtt", "write"}
        /\ pc = "returned" =>
              /\ in_flight = << >>
              /\ ~LoopContinues(drv, x)
              /\ ret # NoReturn
        /\ in_flight # << >> => pc = "retry"

\* C21: SIGINT/SIGTERM never interrupt an in-flight device read: a signal
\* arriving at any point of the cycle only sets kill_now, the current read
\* with its retries and the rest of the cycle go on as if no signal had
\* arrived, and no new cycle is started after the one that was running.
C21_SignalNeverInterrupts ==
    /\ SignalOnlyRecords
    /\ StopRequestStands
    /\ []CycleCarriedThrough

\* C21 witness: with the stop request recorded, the read of the first device
\* has timed out once and its second transaction is in flight.
C21_Witness ==
    /\ kill_now
    /\ pc = "retry"
    /\ attempts = <<"timeout">> /\ x = 1
    /\ in_flight = << <<1, 1>> >>

----------------------------------------------------------------------------
(* Bus connections (specification Spec).                                   *)

\* C22: every driver call closes the bus connection it opened before it
\* returns, on the success path and on every failure path: outside a driver
\* call no bus connection is open, and inside one only that of the device
\* being read.
C22_ConnectionClosedOnReturn ==
    /\ pc # "retry" => connections = {}
    /\ pc = "retry" => connections \subseteq {idx}

----------------------------------------------------------------------------
(* The third transaction of inv_abb_pvs980 (specification Spec).           *)

\* C24: the third transaction of the PVS980 driver fetches the documented
\* READ 3 block, 13 registers from address 42626, so that each status word
\* the parse takes from read3 is the register it is documented at (offset 0
\* the electromechanical word 42626, offset 3 the limitation word 42629,
\* offsets 5..9 the MPPT, grid, fan and environmental words, offsets 10..12
\* the fault and alarm words 42636..42638).
C24_Pvs980Read3Block ==
    (drv = "inv_abb_pvs980" /\ in_flight # << >> /\ in_flight[1][2] = 3) =>
        /\ query = [address |-> 42626, count |-> 13]
        /\ \A w \in DOMAIN pvs980_read3_offsets :
              /\ pvs980_read3_offsets[w] < query.count
              /\ query.address + pvs980_read3_offsets[w] = pvs980_read3_registers[w]

----------------------------------------------------------------------------
(* The scale of the ION 7650 driver (specification SpecCodec).             *)

\* The float f is v / d as far as a float can tell, for an int v of either
\* sign: f * d rounds to v.
IsSignedQuotient(f, v, d) == Rounded(float_mul(f, d)) = SmallInt(v)

\* C23: scale is a divisor in the Schneider ION 7650 driver: every 16-bit
\* field documented with scaling 10 (words 0..15) is the raw word / 10, and
\* every INT16 field documented with scaling 100 (words 78..93) is the
\* sign-reinterpreted word / 100.
C23_IonScaleDivides ==
    (codec_out.done /\ codec_in.op = "ion") =>
        LET read1 == codec_in.data
            v     == codec_out.values
        IN  /\ \A i \in 0..15 : IsQuotient(v.UINT16[i], read1[i], 10)
            /\ \A i \in 78..93 :
                  IsSignedQuotient(v.INT16[i],
                                   IF read1[i] < 32768 THEN read1[i]
                                                       ELSE read1[i] - 65536,
                                   100)

----------------------------------------------------------------------------
(* Reserved status bits (specification SpecCodec).                         *)

\* The words, decoded bits and documented bits of the driver under test.
StatusWordsOf(call) ==
    IF call.driver = "inv_abb_pvs800"
       THEN pvs800_words(call.data.read1, call.data.read3)
       ELSE pvs980_words(call.data.read1, call.data.read3)
DocumentedOf(call) ==
    IF call.driver = "inv_abb_pvs800" THEN pvs800_documented ELSE pvs980_documented

\* The bit positions of a status word that are reserved or lie above the
\* documented range.
Undocumented(doc) == (0..15) \ (doc.listed \ doc.reserved)

\* The word with the bits at the positions of flip inverted, taken from
\* position n upwards.
RECURSIVE ToggleFrom(_, _, _)
ToggleFrom(word, flip, n) ==
    IF n > 15 THEN word
    ELSE ToggleFrom(IF n \notin flip THEN word
                    ELSE IF BitIsSet(word, n) THEN word - 2 ^ n ELSE word + 2 ^ n,
                    flip, n + 1)
Toggle(word, flip) == ToggleFrom(word, flip, 0)

\* C25: reserved and unused status bits are omitted: the Reading of the
\* PVS800 and PVS980 drivers has a field for each documented bit of a status
\* word that is not reserved and for no other position (none for PVS800
\* limitation bit 10, PVS980 limitation bit 13 and environmental bit 0, none
\* above the documented range), and a response that differs from the one
\* decoded only in such bits decodes to the same fields (each flag is 1.0
\* exactly when its bit is set in that other response).
C25_ReservedBitsOmitted ==
    (codec_out.done /\ codec_in.op = "status") =>
        LET words == StatusWordsOf(codec_in)
            doc   == DocumentedOf(codec_in)
            v     == codec_out.values
        IN  /\ DOMAIN v = DOMAIN doc
            /\ \A w \in DOMAIN v :
                  /\ DOMAIN v[w] = doc[w].listed \ doc[w].reserved
                  /\ \A n \in DOMAIN v[w] : v[w][n] \in {FloatZero, FloatOne}
                  /\ \A flip \in SUBSET Undocumented(doc[w]) :
                        LET other == Toggle(words[w], flip)
                        IN  \A n \in DOMAIN v[w] :
                                v[w][n] = FloatOne <=> BitIsSet(other, n)

\* C25 witness: a PVS800 response whose limitation word has the reserved bit
\* 10 set was decoded: bit 9 gave 0.0, bit 11 gave 1.0 and bit 10 gave no
\* field.
C25_Witness ==
    /\ codec_out.done /\ codec_in.op = "status"
    /\ codec_in.driver = "inv_abb_pvs800"
    /\ BitIsSet(codec_in.data.read3[1], 10)
    /\ 10 \notin DOMAIN codec_out.values.limiting_status_word
    /\ codec_out.values.limiting_status_word[9] = FloatZero
    /\ codec_out.values.limiting_status_word[11] = FloatOne

----------------------------------------------------------------------------
(* Where the data of a Reading comes from (specification Spec).            *)

----------------------------------------------------------------------------
(* The order of the ranges in a driver that reads several (specification   *)
(* Spec).                                                                  *)

\* The drivers whose get_data holds more than one retry loop.
MultiRange(d) == d \in DriverIds /\ NumRanges(d) > 1

\* A query is handed to the bus in this step.
QuerySent == in_flight' # in_flight /\ Len(in_flight') > Len(in_flight)

\* The call moves from the loop of one range to the loop of another.
RangeChanged == pc = "retry" /\ pc' = "retry" /\ rng' # rng

\* C27: in a driver with several ranges the ranges are tried in the order
\* read1, read2, read3: the call passes from a range to the one after it
\* only, and only when the range it leaves was answered; a query of a range
\* is sent only while every earlier range is bound, no later one is, and no
\* range has run out of attempts; and once a range has run out of attempts
\* the call has returned False and no query is sent or awaited in that call.
C27_RangesInOrder ==
    /\ [][ (MultiRange(drv) /\ RangeChanged) =>
              /\ rng' = rng + 1
              /\ reads[rng] # << >>
              /\ attempts # << >> /\ attempts[Len(attempts)] = "ok" ]_vars
    /\ [][ (MultiRange(drv) /\ QuerySent) =>
              /\ in_flight' = << <<idx, rng>> >>
              /\ query' = Request(drv, rng)
              /\ \A k \in 1..NumRanges(drv) : (reads[k] # << >>) <=> (k < rng)
              /\ ~exhausted ]_vars
    /\ []( (MultiRange(drv) /\ exhausted) =>
              /\ pc = "returned"
              /\ ret = ReturnFalse
              /\ in_flight = << >> )
    /\ [][ (MultiRange(drv) /\ exhausted) => in_flight' = in_flight ]_vars

\* The third range of a driver is being read after the second needed a
\* second attempt.
C27_Witness ==
    /\ pc = "retry"
    /\ MultiRange(drv)
    /\ rng = 3
    /\ prior_retried
    /\ in_flight = << <<idx, 3>> >>

----------------------------------------------------------------------------
(* Termination of the driver calls and of the cycle (specification         *)
(* SpecLive).                                                              *)

\* A pass of the body of the current retry loop ends in this step.
AttemptEnds == pc = "retry" /\ pc' = "retry" /\ rng' = rng /\ x' # x

\* The device loop is over and the part of main that hands the Batch on has
\* begun: the telemetry Reading, the publish and the file.
LoopLeft == pc = "telemetry" /\ idx = Len(devices) + 1

\* C28: every driver call terminates whatever the bus answers: the attempt
\* counter of a retry loop never exceeds TRY_AMOUNT and every pass of the
\* loop body raises it, a call makes at most (number of ranges x TRY_AMOUNT)
\* transactions, a call that was entered returns, the device loop once
\* entered is left for the steps of main that follow it, and the run ends.
C28_CallsAndCycleTerminate ==
    /\ []( drv \in DriverIds =>
              /\ x <= TRY_AMOUNT(drv)
              /\ Len(attempts) + Len(in_flight) <= TRY_AMOUNT(drv)
              /\ transactions <= NumRanges(drv) * TRY_AMOUNT(drv) )
    /\ [][ AttemptEnds => x' > x ]_vars
    /\ [][ transactions' > transactions => transactions' = transactions + 1 ]_vars
    /\ (pc = "retry") ~> (pc = "returned")
    /\ (pc = "loop") ~> LoopLeft
    /\ <>(pc = "finished")

\* A call of a driver with several ranges that used its whole budget of
\* transactions has returned.
C28_Witness ==
    /\ pc = "returned"
    /\ MultiRange(drv)
    /\ transactions = NumRanges(drv) * TRY_AMOUNT(drv)

----------------------------------------------------------------------------
(* The file at the final path (specification Spec).                        *)

\* The text of the whole serialized Batch.
CompleteFile == <<json_dump(data_package)>>

\* os.rename raised in this step.
RenameFailed == pc = "rename" /\ pc' = "finished" /\ temp_file' = temp_file

\* C29: the output file is written atomically: the final path holds nothing
\* or the complete serialized Batch; its contents change only by the rename
\* of a temporary file that holds the complete serialized Batch; the write
\* step itself touches the temporary path only, also when it fails on the
\* way; and a rename that fails is logged and leaves the final path as it
\* was.
C29_AtomicWrite ==
    /\ []( final_file = << >> \/ final_file = CompleteFile )
    /\ [][ final_file' # final_file =>
              /\ pc = "rename"
              /\ temp_file = CompleteFile
              /\ final_file' = temp_file
              /\ temp_file' = << >> ]_vars
    /\ [][ pc = "write" => final_file' = final_file ]_vars
    /\ [][ RenameFailed =>
              /\ final_file' = final_file
              /\ <<"atomic_write_error", 0>> \in log' ]_vars
    /\ []( <<"atomic_write_error", 0>> \in log =>
              final_file = << >> /\ temp_file = CompleteFile )

\* A Batch of two Readings was written to the temporary path and renamed
\* into place: the final path holds its whole text and the temporary path
\* is gone.
C29_Witness ==
    /\ pc = "finished"
    /\ Len(data_package) = 2
    /\ final_file = CompleteFile
    /\ Len(final_file[1]) = 2
    /\ temp_file = << >>
    /\ <<"atomic_write_error", 0>> \notin log

----------------------------------------------------------------------------
(* communication/mqtt.py: send_data on its own (specification SpecMqtt):   *)
(* one call send_data(mqtt_file, serial, data_package) on a sampled Batch.  *)

\* Entries of the servers list of mqtt.yml: the enabled flag and the topic
\* (address, port and credentials do not bear on the control flow).
ServerPool == [enabled : BOOLEAN, topic : {"plant_a", "plant_b"}]

\* The server lists explored.
MqttConfigs == UNION { [1..n -> ServerPool] : n \in 0..MaxServers }

\* Batches send_data is called with: none, one and two device Readings, and
\* a device Reading followed by the telemetry Reading.
BatchSamples ==
    LET now == [minute |-> 0, second |-> 0]
        R(i) == Reading(Header(i, "suffix", now), NoReads)
    IN  { << >>, <<R(1)>>, <<R(1), R(2)>>, <<R(2), R(1)>>,
          <<R(1), get_raspberry_internals(now)>> }

\* The state when main calls send_data.
InitMqtt ==
    /\ cfg = << >>
    /\ devices = << >>
    /\ pc = "send_data"
    /\ idx = 1
    /\ data_package \in BatchSamples
    /\ results = << >>
    /\ calls = << >>
    /\ drv = ""
    /\ rng = 1
    /\ x = 0
    /\ reads = NoReads
    /\ values = NoValues
    /\ in_flight = << >>
    /\ attempts = << >>
    /\ prior_retried = FALSE
    /\ exhausted = FALSE
    /\ ret = NoReturn
    /\ args = {"mqtt_enabled"}
    /\ reached = {}
    /\ published = << >>
    /\ temp_file = << >>
    /\ final_file = << >>
    /\ log = {}
    /\ codec_in = NoCodecCall
    /\ codec_out = NoCodecResult
    /\ kill_now = FALSE
    /\ connections = {}
    /\ query = NoQuery
    /\ transactions = 0
    /\ servers = << >>
    /\ server = 1
    /\ offered = << >>

\* What send_data leaves alone.
mqttFrame == <<cfg, devices, idx, data_package, results, calls, callVars,
               sinkVars, codecVars, signalVars, busVars>>

\* "servers = get_mqtt_config(mqtt_config_path)": the assert raises
\* when the file is missing, outside every try block of send_data; else the
\* list under the key servers is returned.
get_mqtt_config ==
    /\ pc = "send_data"
    /\ \E file \in { << >> } \cup { <<c>> : c \in MqttConfigs } :
          IF file = << >>
             THEN /\ pc' = "raised"
                  /\ UNCHANGED mqttVars
             ELSE /\ servers' = file[1]
                  /\ server' = 1
                  /\ offered' = [k \in 1..Len(file[1]) |-> << >>]
                  /\ pc' = "servers"
    /\ UNCHANGED <<mqttFrame, log>>

\* "if server['enabled']" is false: the body is skipped.
SkipServer ==
    /\ pc = "servers"
    /\ server <= Len(servers)
    /\ ~servers[server].enabled
    /\ server' = server + 1
    /\ UNCHANGED <<mqttFrame, pc, log, servers, offered>>

\* The list mqtt_payload built for one server: one message per Reading in
\* the order of the Batch, its topic server['topic'] + "/" + Device_Name
\* and its payload json.dumps(data).
mqtt_payload_for(srv, batch) ==
    [k \in 1..Len(batch) |->
        [topic |-> <<srv.topic, batch[k].Device_Name>>,
         payload |-> json_dumps(batch[k])]]

\* Mutant: the try/except encloses the whole for loop, so the first
\* exception ends the loop.
AfterPublishException_LoopAborted(k) == Len(servers) + 1

\* Where the loop goes on after "except Exception as e: log.error(...)":
\* the next server.
AfterPublishException(k) == k + 1

\* The body of the loop for an enabled server: the payload is built and
\* handed to multiple, which returns or raises; the except clause logs.
PublishServer ==
    /\ pc = "servers"
    /\ server <= Len(servers)
    /\ servers[server].enabled
    /\ \E raised \in BOOLEAN :
          /\ offered' = [offered EXCEPT ![server] =
                << [messages |-> mqtt_payload_for(servers[server], data_package),
                    raised |-> raised] >>]
          /\ log' = IF raised THEN log \cup { <<"mqtt_exception", server>> } ELSE log
          /\ server' = IF raised THEN AfterPublishException(server) ELSE server + 1
    /\ UNCHANGED <<mqttFrame, pc, servers>>

\* The for loop has passed the last server: send_data returns.
SendDone ==
    /\ pc = "servers"
    /\ server > Len(servers)
    /\ pc' = "sent"
    /\ UNCHANGED <<mqttFrame, log, mqttVars>>

NextMqtt == get_mqtt_config \/ SkipServer \/ PublishServer \/ SendDone

SpecMqtt == InitMqtt /\ [][NextMqtt]_vars

\* The messages handed to multiple for server k are one per Reading of the
\* Batch, in its order, under the topic of that server.
OfferedTheBatch(k) ==
    /\ offered[k] # << >>
    /\ LET m == offered[k][1].messages
       IN  /\ Len(m) = Len(data_package)
           /\ \A j \in 1..Len(data_package) :
                 /\ m[j].topic = <<servers[k].topic, data_package[j].Device_Name>>
                 /\ SameReading(m[j].payload, data_package[j])

\* C30, the state part: of the servers the loop has passed, each enabled one
\* was offered the Batch whatever became of the servers before it, with its
\* failure logged if the publish raised and only then, and each disabled one
\* was offered nothing; the servers not yet reached were offered nothing;
\* and send_data returns only when the loop has passed every server.
C30_ServedServers ==
    pc \in {"servers", "sent"} =>
        /\ DOMAIN offered = 1..Len(servers)
        /\ pc = "sent" => server = Len(servers) + 1
        /\ \A k \in 1..Len(servers) :
              /\ k >= server => offered[k] = << >>
              /\ (k < server /\ ~servers[k].enabled) =>
                    offered[k] = << >> /\ <<"mqtt_exception", k>> \notin log
              /\ (k < server /\ servers[k].enabled) =>
                    /\ OfferedTheBatch(k)
                    /\ offered[k][1].raised <=> <<"mqtt_exception", k>> \in log

\* C30: publishing is isolated per server: a publish failure for an enabled
\* server is logged and the loop goes on to the next server, every enabled
\* server is offered one message per Reading of the Batch in Batch order,
\* disabled servers are offered nothing, and the Batch is left as it was.
C30_PerServerIsolation ==
    /\ []C30_ServedServers
    /\ [][ (pc = "servers" /\ server <= Len(servers)) =>
              /\ pc' = "servers"
              /\ server' = server + 1
              /\ data_package' = data_package ]_vars

\* Two enabled servers and a Batch of two Readings: the publish to the first
\* raised and the second was served.
C30_Witness ==
    /\ pc = "sent"
    /\ Len(servers) = 2
    /\ servers[1].enabled /\ servers[2].enabled
    /\ Len(data_package) = 2
    /\ offered[1] # << >> /\ offered[1][1].raised
    /\ offered[2] # << >> /\ ~offered[2][1].raised
    /\ Len(offered[2][1].messages) = 2

====
